---- MODULE Spec2Model ----
(***************************************************************************)
(* Model of the M5Dial temperature controller (src/src/main.cpp): the      *)
(* setpoint model, the input handlers and the FreeSleep reconciliation     *)
(* engine driven by loop().                                                *)
(*                                                                         *)
(* Temperatures are exact rationals held as integers in units of 1/18 of a *)
(* degree Celsius: the half-degree grid of the Celsius mode is a multiple  *)
(* of 9, a whole degree Fahrenheit is a multiple of 10 ((F - 32) * 5 / 9). *)
(* Timestamps (lastSetpointChangeTime, lastFreeSleepSync, ...) are held as *)
(* the elapsed time millis() - timestamp, which is the only way the code   *)
(* reads them; an elapsed time stops growing once it is past every         *)
(* threshold it is compared with.                                          *)
(***************************************************************************)
EXTENDS Integers, Sequences, FiniteSets, TLC

\* ------------------------------------------------------------------ bounds
\* Number of user, control-surface or remote-side input events in one run
\* (inputs counts the ones still to come).
MaxInputs == 2
\* Number of fully failed poll cycles in a row the remote is allowed.
MaxFailures == 1
\* The same bound in the specification of the backoff alone.
MaxBackoffFailures == 6
\* Number of dial and touch events in one run of the front panel alone.
MaxPanelInputs == 4
\* Number of touch presses in one run of the centre gestures alone.
MaxTouchInputs == 3

\* Input events of a run that starts in the address editor, on a given
\* address and on any address.
MaxEditorInputs == 5

MaxOctetInputs == 2

\* Dial events of a run of the push/poll round trip.
MaxRoundTripInputs == 1

\* Input events of a run that starts with the settings menu open.
MaxMenuInputs == 3

\* Input events of a run that starts on the password screen.
MaxPasswordInputs == 3

\* Input events of a run of the control surface.
MaxApiInputs == 2

\* ------------------------------------------------------- program constants
\* 1/18 degree Celsius: 2 (half degrees) * 9 (Fahrenheit to Celsius).
Scale == 2 * 9
TEMP_MIN == 10 * Scale
TEMP_MAX == 35 * Scale
TEMP_DEFAULT == 21 * Scale
FREESLEEP_DEBOUNCE_MS == 500
SYNC_COOLDOWN_AFTER_CHANGE_MS == 1000
FREESLEEP_SYNC_INTERVAL_MS == 2000
MAX_SYNC_INTERVAL_MS == 60000
TAP_MIN_MS == 200
POWER_MAX_MS == 1000
NIGHT_MODE_MAX_MS == 3000
TAP_DEBOUNCE_MS == 500
HTTP_TIMEOUT_MS == 1000
SETUP_DELAY_MS == 2000
DETENT == 4
PUSH_MIN_F == 55
PUSH_MAX_F == 110
SCREEN_WIDTH == 240
SCREEN_HEIGHT == 240
centerX == SCREEN_WIDTH \div 2
centerY == SCREEN_HEIGHT \div 2
arcRadius == 100
arcThickness == 15

\* One scheduler quantum: every duration of the model is a multiple of it.
TickMs == FREESLEEP_DEBOUNCE_MS

Zones == {"bed", "pillow"}

Sides == {"left", "right"}

MENU_WIFI_SETTINGS == 0
MENU_BED_IP == 1
MENU_PILLOW_IP == 2
MENU_BED_SIDE == 3
MENU_TEMP_UNIT == 4
MENU_NIGHT_MODE == 5
MENU_TEMPERATURE_MODE == 6
MENU_COUNT == 7
\* strlen(alphaNumeric)
ALPHA_LEN == 91
MAX_SSIDS == 20
CONNECT_POLL_MS == 500
CONNECT_ATTEMPTS == 20
CONNECT_SHOWN_MS == 2000
HOLD_MS == 1000
\* The endpoint addresses compiled in, and the ones setup() falls back to
\* when nothing is persisted.
StaticBedIP == <<192, 168, 1, 44>>
StaticPillowIP == <<192, 168, 1, 14>>
DefaultBedIP == <<192, 168, 1, 100>>
DefaultPillowIP == <<192, 168, 1, 101>>
InitialTempIPOctets == <<192, 168, 1, 1>>

SubMenu == {"SUBMENU_NONE", "SUBMENU_WIFI_SCAN", "SUBMENU_WIFI_PASSWORD", "SUBMENU_IP_EDITOR"}

\* ---------------------------------------------------------- pure functions
Abs(x) == IF x < 0 THEN -x ELSE x

Min(a, b) == IF a < b THEN a ELSE b

\* C integer division and remainder truncate toward zero.
TruncDiv(a, b) == IF a >= 0 THEN a \div b ELSE -((-a) \div b)

\* A remainder that takes the sign of the divisor.
FloorMod(a, b) == a % b

\* C's %: the remainder takes the sign of the dividend.
TruncMod(a, b) == IF a >= 0 THEN a % b ELSE -((-a) % b)

\* round(n / d) for d > 0: nearest integer, halves away from zero.
RoundDiv(n, d) == IF n >= 0 THEN (2 * n + d) \div (2 * d) ELSE -((2 * (-n) + d) \div (2 * d))

\* celsiusToFahrenheit, result in tenths of a degree Fahrenheit:
\* c * 9 / 5 + 32 with c = t / 18.
celsiusToFahrenheit10(t) == t + 320

\* fahrenheitToCelsius of a whole number of degrees Fahrenheit.
fahrenheitToCelsius(f) == (f - 32) * 10

\* A clamp at the upper limit only.
ClampTempAbove(t) == IF t > TEMP_MAX THEN TEMP_MAX ELSE t

\* The two clamping ifs every edit path repeats.
ClampTemp(t) == IF t < TEMP_MIN THEN TEMP_MIN ELSE IF t > TEMP_MAX THEN TEMP_MAX ELSE t

\* round(newTemp * 2) / 2
RoundHalfDegree(t) == RoundDiv(t, 9) * 9

\* round(celsiusToFahrenheit(newTemp)), then fahrenheitToCelsius
RoundWholeFahrenheit(t) == fahrenheitToCelsius(RoundDiv(celsiusToFahrenheit10(t), 10))

\* A push of the rounded value as it is.
PushTempFUnclamped(t) == RoundDiv(celsiusToFahrenheit10(t), 10)

\* Value setFreeSleepTemperature sends: whole degrees Fahrenheit, clamped.
PushTempF(t) ==
  LET tempF == RoundDiv(celsiusToFahrenheit10(t), 10)
  IN  IF tempF < PUSH_MIN_F THEN PUSH_MIN_F ELSE IF tempF > PUSH_MAX_F THEN PUSH_MAX_F ELSE tempF

\* atan2(dy, dx) * 180 / PI normalised to 0..360, for the touch points of
\* the model, which lie on the axes through the screen centre.
TouchAngle(dx, dy) ==
  CASE dy = 0 /\ dx > 0 -> 0
    [] dx = 0 /\ dy > 0 -> 90
    [] dy = 0 /\ dx < 0 -> 180
    [] dx = 0 /\ dy < 0 -> 270

\* The arc branch of handleTouchInput: angle to temperature, clamped and
\* rounded to half a degree; -1 when the angle is off the arc.
\* mapFloat(a, 165, 375, TEMP_MIN, TEMP_MAX) = num / 210 with
\* num = (a - 165) * (TEMP_MAX - TEMP_MIN) + TEMP_MIN * 210.
ArcTemp(angle) ==
  LET a == IF angle >= 165 /\ angle <= 360 THEN angle
           ELSE IF angle >= 0 /\ angle <= 15 THEN angle + 360 ELSE -1
      num == (a - 165) * (TEMP_MAX - TEMP_MIN) + TEMP_MIN * 210
      lo == IF num < TEMP_MIN * 210 THEN TEMP_MIN * 210 ELSE num
      cl == IF lo > TEMP_MAX * 210 THEN TEMP_MAX * 210 ELSE lo
  IN  IF a < 0 THEN -1 ELSE RoundDiv(cl, 9 * 210) * 9

\* The encoder branch of handleEncoderInput: new value of the active
\* setpoint after `steps` detents.
RotaryTemp(active, steps, fahrenheit) ==
  LET stepSize == IF fahrenheit THEN 10 ELSE 9
      newTemp == ClampTemp(active + steps * stepSize)
  IN  IF fahrenheit THEN RoundWholeFahrenheit(newTemp) ELSE RoundHalfDegree(newTemp)

\* A backoff without the cap: what the interval law rules out.
BackoffUncapped(i) == i * 2

\* currentSyncInterval after a fully failed cycle.
BackoffInterval(i) == Min(i * 2, MAX_SYNC_INTERVAL_MS)

\* A backoff whose success clears the failure count and keeps the interval.
SyncBackoffKeepsInterval(anySuccess, interval, failures) ==
  IF anySuccess
  THEN [interval |-> interval, failures |-> 0]
  ELSE [interval |-> BackoffInterval(interval), failures |-> failures + 1]

\* currentSyncInterval and consecutiveFailures after a poll cycle
\* (the backoff block of syncFromFreeSleep).
SyncBackoff(anySuccess, interval, failures) ==
  IF anySuccess
  THEN IF failures > 0
       THEN [interval |-> FREESLEEP_SYNC_INTERVAL_MS, failures |-> 0]
       ELSE [interval |-> interval, failures |-> failures]
  ELSE [interval |-> BackoffInterval(interval), failures |-> failures + 1]

\* allowTempSync, from millis() - lastSetpointChangeTime
AllowTempSync(sinceChange) == sinceChange > SYNC_COOLDOWN_AFTER_CHANGE_MS

\* A merge that never takes the remote temperature.
KeepTemp(local, res, allow) == local

\* A merge that never takes the remote power state.
KeepPower(local, res) == local

\* The temperature merge of one zone: abs(local - temp) > 0.1f, i.e.
\* more than 1.8 units of 1/18 degree.
MergeTemp(local, res, allow) ==
  IF res.ok /\ allow /\ 10 * Abs(local - fahrenheitToCelsius(res.tempF)) > Scale
  THEN fahrenheitToCelsius(res.tempF)
  ELSE local

\* The power merge of one zone.
MergePower(local, res) == IF res.ok /\ local # res.isOn THEN res.isOn ELSE local

\* A push that stays pending when its write was not answered.
KeepPendingOnFailure(o) == o # "ok"

\* pendingFreeSleepUpdate after the debounced push of loop(): cleared before
\* the write is attempted, whatever its outcome o.
PendingAfterFlush(o) == FALSE

\* The guard of the debounced push in loop():
\* pendingFreeSleepUpdate && currentMillis - lastSetpointChangeTime >= 500
FlushDue(pending, sinceChange) == pending /\ sinceChange >= FREESLEEP_DEBOUNCE_MS

\* handleEncoderInSettings(): the item `steps` detents from `item`.
MenuStep(item, steps) == TruncMod(item + steps + MENU_COUNT, MENU_COUNT)

\* An octet that stops at 0 and at 255.
OctetStepSaturating(v, steps) ==
  IF v + steps < 0 THEN 0 ELSE IF v + steps > 255 THEN 255 ELSE v + steps

\* handleEncoderInIPEditor(): the octet `steps` detents from v: the two
\* wrapping tests one after the other, and the store into a uint8_t.
OctetStep(v, steps) ==
  LET newValue == v + steps
      low == IF newValue < 0 THEN 256 + TruncMod(newValue, 256) ELSE newValue
      high == IF low > 255 THEN TruncMod(low, 256) ELSE low
  IN  high % 256

\* A selection that wraps round the list.
SelectStepWrapping(index, steps, count) == (index + steps) % count

\* handleEncoderInWiFiScanner(): the selection `steps` entries from index,
\* held within the `count` networks found.
SelectStep(index, steps, count) ==
  LET moved == index + steps
      low == IF moved < 0 THEN 0 ELSE moved
  IN  IF low >= count THEN count - 1 ELSE low

\* An address stored on the fifth press.
AddressCompleteLate(octet) == octet >= 5

\* An address stored on every press.
AddressCompleteAtOnce(octet) == octet >= 1

\* An address stored on the third press.
AddressCompleteEarly(octet) == octet >= 3

\* handleEncoderInIPEditor(): whether the press that moved the editor to
\* `octet` finished the address.
AddressComplete(octet) == octet >= 4

\* A press that opens the password screen on an empty list too.
NetworkChosenAlways(pressed, count) == pressed

\* handleEncoderInWiFiScanner(): whether the button picks a network.
NetworkChosen(pressed, count) == pressed /\ count > 0

\* A wait that lasts until the network is joined.
ConnectWaitUnbounded(after) == [waits |-> after, joined |-> TRUE]

\* handleEncoderInPasswordEntry(): the wait for a connection reported
\* after `after` waits: the loop gives up at CONNECT_ATTEMPTS, and the
\* status is read once more after it.
ConnectWait(after) ==
  [waits |-> IF after < CONNECT_ATTEMPTS THEN after ELSE CONNECT_ATTEMPTS,
   joined |-> after <= CONNECT_ATTEMPTS]

\* A selection that opens the address editor on the bed-side item too.
SelectedSubMenuLoose(item) ==
  IF item = MENU_WIFI_SETTINGS THEN "SUBMENU_WIFI_SCAN"
  ELSE IF item \in {MENU_BED_IP, MENU_PILLOW_IP, MENU_BED_SIDE} THEN "SUBMENU_IP_EDITOR"
  ELSE "SUBMENU_NONE"

\* handleEncoderInSettings(): the submenu the button opens on `item`
\* (none on the items that toggle a setting).
SelectedSubMenu(item) ==
  IF item = MENU_WIFI_SETTINGS THEN "SUBMENU_WIFI_SCAN"
  ELSE IF item \in {MENU_BED_IP, MENU_PILLOW_IP} THEN "SUBMENU_IP_EDITOR"
  ELSE "SUBMENU_NONE"

\* A touch that leaves the menu from any depth.
ExitTouchToMain(subMenu) == [open |-> FALSE, subMenu |-> "SUBMENU_NONE"]

\* handleTouchInput() while the settings menu is open: a touch closes the
\* submenu if one is active, and the menu otherwise.
ExitTouch(subMenu) == [open |-> subMenu # "SUBMENU_NONE", subMenu |-> "SUBMENU_NONE"]

\* A debounce that also drops a release exactly TAP_DEBOUNCE_MS after the
\* last one.
TapAcceptedLate(sinceLastTap) == sinceLastTap > TAP_DEBOUNCE_MS

\* The debounce of handleTouchInput(): a release is dropped when
\* now - lastCenterTapTime < TAP_DEBOUNCE_MS.
TapAccepted(sinceLastTap) == ~(sinceLastTap < TAP_DEBOUNCE_MS)

\* Bands closed at their upper ends.
TapBandInclusive(touchDuration) ==
  IF touchDuration <= TAP_MIN_MS THEN "dim"
  ELSE IF touchDuration <= POWER_MAX_MS THEN "power"
  ELSE IF touchDuration <= NIGHT_MODE_MAX_MS THEN "night"
  ELSE "settings"

\* The band of a centre gesture by its duration.
TapBand(touchDuration) ==
  IF touchDuration < TAP_MIN_MS THEN "dim"
  ELSE IF touchDuration < POWER_MAX_MS THEN "power"
  ELSE IF touchDuration < NIGHT_MODE_MAX_MS THEN "night"
  ELSE "settings"

\* ------------------------------------------------------------ input sets
\* Raw encoder counts read in one call (whole detents).
EncoderDiffs == {-DETENT, DETENT}

\* One call of an encoder handler sees a movement or a button press.
EncoderInputs == {<<d, FALSE>> : d \in EncoderDiffs} \cup {<<0, TRUE>>}

\* Networks WiFi.scanNetworks() finds.
ScanResults == {0, 2}

\* The front panel alone: raw counts of less than a detent, of several
\* detents with a remainder, and of a full turn of the menu and more, as
\* they add up while loop() is held up in a request.
PanelDiffs == {-32, -9, -1, 3, 28}

\* One call of a rotary handler: a movement, a press, or both.
PanelInputs == {<<d, FALSE>> : d \in PanelDiffs} \cup {<<0, TRUE>>, <<DETENT, TRUE>>}

\* One call of the password handler: a movement, a press, or neither
\* (the call that finds the button held).
PasswordInputs == {<<d, FALSE>> : d \in PanelDiffs} \cup {<<0, TRUE>>, <<0, FALSE>>}

\* A scan that fails (WIFI_SCAN_FAILED), finds nothing, two networks, or
\* more than the list holds.
PanelScanResults == {-2, 0, 2, 21}

\* An association attempt: the number of 500 ms waits after which the
\* network reports the connection (21 and more: not within the wait).
ConnectAfter == {1, 20, 21, 40}

\* The centre gestures alone: the centre and the bottom strip, and loop()
\* iterations of these lengths.
GesturePoints == {<<120, 120>>, <<120, 220>>}

\* Presses of a run from the settings menu: the time strip and the two zone
\* buttons (any of them leaves the menu while it is open).
MenuPoints == {<<120, 220>>, <<50, 185>>, <<190, 185>>}

GestureDelays == {100, 900, 2000}

\* The address editor: raw counts of 257 detents back, one detent back,
\* less than a detent, and 75 detents forward; a press alone and a press
\* with one detent.
EditorDiffs == {-1028, -DETENT, 3, 300}

EditorInputs == {<<d, FALSE>> : d \in EditorDiffs} \cup {<<0, TRUE>>, <<DETENT, TRUE>>}

\* Addresses a zone can hold when the editor opens on it: every value of
\* the first octet.
EditorAddresses == {<<v, 255, 0, 1>> : v \in 0..255}

\* Bodies of a control-surface address write: the load-time default of the
\* bed and one other address.
ApiAddresses == {DefaultBedIP, <<10, 0, 0, 7>>}

\* Body of a control-surface setpoint write, in 1/18 degree: 40 C.
ApiValues == {40 * Scale}

\* Bodies of the control surface alone: 5 C, just under TEMP_MIN, 22.5 C,
\* just over TEMP_MAX and 40 C.
ApiBodies == {5 * Scale, TEMP_MIN - 1, 405, TEMP_MAX + 1, 40 * Scale}

\* Touch points: centre, bottom strip, pillow button, bed button and the
\* top of the arc ring.
TouchPoints == {<<120, 120>>, <<120, 220>>, <<50, 185>>, <<190, 185>>, <<120, 20>>}

\* Outcome of one HTTP call: answered, or timed out.
NetOutcomes == {"ok", "timeout"}

\* Outcome of one GET of the device status: answered, timed out, answered
\* with a body that is not JSON, or with JSON that has no temperature for
\* the side.
FetchOutcomes == {"ok", "timeout", "garbled", "nofield"}

\* Preferences found in NVS at boot: (useFahrenheit, bedSideRight).
BootPrefs == {<<FALSE, FALSE>>, <<TRUE, FALSE>>}

\* What the remote side can be set to behind the controller's back.
RemoteStates == {[tempF |-> 110, isOn |-> FALSE]}

RemoteInit == [tempF |-> 69, isOn |-> TRUE]

CallDuration(o) == IF o = "timeout" THEN HTTP_TIMEOUT_MS ELSE 0

\* ------------------------------------------------------------------ state
VARIABLES pc, inputs, wifiConnected, bedSetpoint, pillowSetpoint, bedPowerOn, pillowPowerOn,
  pillowModeActive, useFahrenheit, bedSideRight, nightModeOverride,
  inSettingsMenu, currentMenuItem, currentSubMenu, encoderAccumulator, settingsAccumulator,
  pendingFreeSleepUpdate, currentSyncInterval, consecutiveFailures, centerTouchActive,
  ipEditorAccumulator, scannerAccumulator, passwordAccumulator,
  editingBedIP, ipEditorOctet, tempIPOctets,
  scannedSSIDCount, selectedSSIDIndex, passwordCharIndex, wifiPasswordInput,
  bedTargetIP, pillowTargetIP, savedWifi, nvs,
  since, remote, sinceEdit, armed, recentToggle, heldPress, op

setpoints == <<bedSetpoint, pillowSetpoint>>

power == <<bedPowerOn, pillowPowerOn>>

prefs == <<useFahrenheit, bedSideRight, nightModeOverride>>

menu == <<inSettingsMenu, currentMenuItem, currentSubMenu>>

\* The accumulators of the five rotary handlers (each a function-local static).
accs == <<encoderAccumulator, settingsAccumulator, ipEditorAccumulator, scannerAccumulator,
  passwordAccumulator>>

ipEditor == <<editingBedIP, ipEditorOctet, tempIPOctets>>

wifiSetup == <<scannedSSIDCount, selectedSSIDIndex, passwordCharIndex, wifiPasswordInput>>

stored == <<bedTargetIP, pillowTargetIP, savedWifi, nvs>>

submenus == <<ipEditor, wifiSetup, stored>>

backoff == <<currentSyncInterval, consecutiveFailures>>

ghosts == <<sinceEdit, armed, recentToggle>>

vars == <<pc, inputs, wifiConnected, setpoints, power, pillowModeActive, prefs, menu, accs,
  pendingFreeSleepUpdate, backoff, centerTouchActive, submenus, since, remote, ghosts, heldPress,
  op>>

\* Largest value an elapsed time is tracked to: past the last threshold it
\* is compared with (for lastFreeSleepSync, the current poll interval plus
\* the largest age of currentMillis).
SinceCap ==
  [lastSetpointChangeTime |-> SYNC_COOLDOWN_AFTER_CHANGE_MS + TickMs,
   lastFreeSleepSync |-> currentSyncInterval + HTTP_TIMEOUT_MS,
   currentMillis |-> HTTP_TIMEOUT_MS,
   centerTouchStartTime |-> NIGHT_MODE_MAX_MS,
   lastCenterTapTime |-> TAP_DEBOUNCE_MS,
   lastButtonChange |-> HOLD_MS]

\* millis() moved on by d. centerTouchStartTime is read only while a
\* centre gesture is active and is held at 0 otherwise; lastButtonChange
\* only while a press is followed (heldPress.down).
Advance(s, d, gesture) ==
  [f \in DOMAIN s |->
     IF f = "centerTouchStartTime" /\ ~gesture THEN 0
     ELSE IF f = "lastButtonChange" /\ ~heldPress.down THEN 0
     ELSE Min(s[f] + d, SinceCap[f])]

\* timestamp := millis()
Stamp(s, f) == [s EXCEPT ![f] = 0]

\* Observers, not program state. sinceEdit[z] is the time since the last
\* write to zone z by a user path (dial, touch or control surface);
\* sinceEdit["dial"] the time since the last on-device edit (rotary, arc
\* or reset) of either zone. armed holds the zones edited since the last
\* debounced push: armed.dial those edited on the device, armed.any those
\* edited by any user path. recentToggle is the set of zones whose power
\* the user toggled in this loop iteration; op is what the last step did.
EditKeys == Zones \cup {"dial"}

EditCap == SYNC_COOLDOWN_AFTER_CHANGE_MS + TickMs

AdvanceEdit(e, d) == [z \in EditKeys |-> Min(e[z] + d, EditCap)]

DialEdit(e, z) == [e EXCEPT ![z] = 0, !["dial"] = 0]

NoneArmed == [dial |-> {}, any |-> {}]

ArmDial(a, z) == [dial |-> a.dial \cup {z}, any |-> a.any \cup {z}]

ArmApi(a, z) == [a EXCEPT !.any = @ \cup {z}]

\* heldPress follows BtnA from the press that opens the password screen
\* until that screen is left: down, whether the button is still down since
\* a press edge; buffer, the password buffer as it stood when that press
\* began. since.lastButtonChange is the age of the press edge.
NoPress == [down |-> FALSE, buffer |-> <<>>]

\* BtnA.pressedFor(1000)
HoldDue == heldPress.down /\ since.lastButtonChange >= HOLD_MS

\* No network name (the empty string) and no password.
NoWifi == [ssid |-> -1, pass |-> <<>>]

\* The preferences store with no address and no credentials persisted.
EmptyNvs == [bedIP |-> <<>>, pillowIP |-> <<>>, wifi |-> NoWifi]

\* A fetch that returned false; reply: what the remote answered ("none":
\* no request was made).
NoResult == [ok |-> FALSE, tempF |-> 0, isOn |-> FALSE, reply |-> "none"]

NoBefore ==
  [setpoint |-> [z \in Zones |-> 0], power |-> [z \in Zones |-> FALSE], interval |-> 0,
   failures |-> 0, sinceChange |-> 0, sinceEdit |-> [z \in Zones |-> 0]]

\* No association attempt made.
NoAttempt == [tried |-> FALSE, waits |-> 0, joined |-> FALSE, pass |-> <<>>]

\* No request served: no numeric setpoint read and no response sent.
NoApi == [numeric |-> FALSE, value |-> 0, status |-> 0]

\* server.send(200, ...) after a write of the numeric setpoint v.
Accepted(v) == [numeric |-> TRUE, value |-> v, status |-> 200]

\* server.send(400, ...): a body that is not JSON or has no setpoint.
Rejected == [numeric |-> FALSE, value |-> 0, status |-> 400]

\* diff, steps and button: the raw counts a rotary handler read, the
\* detents it emitted and whether it saw a button press; activity: whether the step called recordActivity() ("now"),
\* set lastActivityTime to 0 ("zero") or left it alone ("none"); attempt:
\* the association attempt the step made, the waits it took and its result;
\* api: the setpoint a control-surface request carried and the status sent.
NoOp ==
  [kind |-> "none", writes |-> {}, reqs |-> <<>>, res |-> [z \in Zones |-> NoResult],
   before |-> NoBefore, diff |-> 0, steps |-> 0, button |-> FALSE, activity |-> "none",
   attempt |-> NoAttempt, api |-> NoApi]

Did(kind, writes, reqs) == [NoOp EXCEPT !.kind = kind, !.writes = writes, !.reqs = reqs]

\* A call of a rotary handler that saw a movement or a press: both paths
\* call recordActivity().
Turned(kind, writes, diff, steps, pressed) ==
  [Did(kind, writes, <<>>) EXCEPT !.diff = diff, !.steps = steps, !.button = pressed,
                                  !.activity = "now"]

Setpoint(z) == IF z = "bed" THEN bedSetpoint ELSE pillowSetpoint

PowerOn(z) == IF z = "bed" THEN bedPowerOn ELSE pillowPowerOn

\* getActiveSetpoint(): the zone the reference resolves to.
ActiveZone == IF pillowModeActive THEN "pillow" ELSE "bed"

\* bedSideRight ? "right" : "left"
Side == IF bedSideRight THEN "right" ELSE "left"

WriteSetpoint(z, v) ==
  /\ bedSetpoint' = IF z = "bed" THEN v ELSE bedSetpoint
  /\ pillowSetpoint' = IF z = "pillow" THEN v ELSE pillowSetpoint

\* setFreeSleepTemperature(ip of z, side, t): the request sent (none when
\* offline) and the remote state after it.
SendTemperature(z, side, t, o) ==
  IF ~wifiConnected
  THEN [reqs |-> <<>>, dur |-> 0, remote |-> remote]
  ELSE [reqs |-> <<[zone |-> z, side |-> side, field |-> "targetTemperatureF",
                    tempF |-> PushTempF(t), isOn |-> FALSE, ok |-> o = "ok"]>>,
        dur |-> CallDuration(o),
        remote |-> IF o = "ok" THEN [remote EXCEPT ![z][side].tempF = PushTempF(t)] ELSE remote]

\* setFreeSleepPower(ip of z, side, on)
SendPower(z, side, on, o) ==
  IF ~wifiConnected
  THEN [reqs |-> <<>>, dur |-> 0, remote |-> remote]
  ELSE [reqs |-> <<[zone |-> z, side |-> side, field |-> "isOn",
                    tempF |-> 0, isOn |-> on, ok |-> o = "ok"]>>,
        dur |-> CallDuration(o),
        remote |-> IF o = "ok" THEN [remote EXCEPT ![z][side].isOn = on] ELSE remote]

\* A fetch that reads the fields of any JSON answer without testing them:
\* a missing temperature reads as 0 F and a missing isOn as off.
FetchUnchecked(connected, z, side, o) ==
  IF ~connected THEN NoResult
  ELSE IF o \in {"timeout", "garbled"} THEN [NoResult EXCEPT !.reply = o]
  ELSE IF o = "nofield" THEN [ok |-> TRUE, tempF |-> 0, isOn |-> FALSE, reply |-> o]
  ELSE [ok |-> TRUE, tempF |-> remote[z][side].tempF, isOn |-> remote[z][side].isOn, reply |-> o]

\* fetchFreeSleepTemperature(ip of z, side, temp, isOn): false when
\* offline, when the GET does not return 200, when the body does not parse
\* or when targetTemperatureF of the side is not a number.
Fetch(connected, z, side, o) ==
  IF ~connected THEN NoResult
  ELSE IF o = "timeout" THEN [NoResult EXCEPT !.reply = o]
  ELSE IF o = "garbled" THEN [NoResult EXCEPT !.reply = o]
  ELSE IF o = "nofield" THEN [NoResult EXCEPT !.reply = o]
  ELSE [ok |-> TRUE, tempF |-> remote[z][side].tempF, isOn |-> remote[z][side].isOn, reply |-> o]

\* The state at power-up, in a run of `budget` input events.
Boot(budget) ==
  /\ pc = "setup"
  /\ inputs = budget
  /\ wifiConnected = FALSE
  /\ bedSetpoint = TEMP_DEFAULT
  /\ pillowSetpoint = TEMP_DEFAULT
  /\ bedPowerOn = TRUE
  /\ pillowPowerOn = TRUE
  /\ pillowModeActive = FALSE
  /\ useFahrenheit = FALSE
  /\ bedSideRight = FALSE
  /\ nightModeOverride = FALSE
  /\ inSettingsMenu = FALSE
  /\ currentMenuItem = MENU_WIFI_SETTINGS
  /\ currentSubMenu = "SUBMENU_NONE"
  /\ encoderAccumulator = 0
  /\ settingsAccumulator = 0
  /\ pendingFreeSleepUpdate = FALSE
  /\ currentSyncInterval = FREESLEEP_SYNC_INTERVAL_MS
  /\ consecutiveFailures = 0
  /\ centerTouchActive = FALSE
  /\ ipEditorAccumulator = 0
  /\ scannerAccumulator = 0
  /\ passwordAccumulator = 0
  /\ editingBedIP = FALSE
  /\ ipEditorOctet = 0
  /\ tempIPOctets = InitialTempIPOctets
  /\ scannedSSIDCount = 0
  /\ selectedSSIDIndex = 0
  /\ passwordCharIndex = 0
  /\ wifiPasswordInput = <<>>
  /\ bedTargetIP = StaticBedIP
  /\ pillowTargetIP = StaticPillowIP
  /\ savedWifi = NoWifi
  /\ nvs = EmptyNvs
  /\ since = [f \in DOMAIN SinceCap |-> 0]
  /\ remote = [z \in Zones |-> [sd \in Sides |-> RemoteInit]]
  /\ sinceEdit = [z \in EditKeys |-> EditCap]
  /\ armed = NoneArmed
  /\ recentToggle = {}
  /\ heldPress = NoPress
  /\ op = NoOp

Init == Boot(MaxInputs)

\* ------------------------------------------------------------------ setup
\* setup(): load the preferences, connect, and sync both zones from the
\* remote when connected (syncTemperaturesFromFreeSleep: no clamp, no
\* cooldown).
Setup(connected, fahrenheit, sideRight, ob, op2) ==
  /\ pc = "setup"
  /\ pc' = "client"
  /\ wifiConnected' = connected
  /\ useFahrenheit' = fahrenheit
  /\ bedSideRight' = sideRight
  /\ LET side == IF sideRight THEN "right" ELSE "left"
         rb == Fetch(connected, "bed", side, ob)
         rp == Fetch(connected, "pillow", side, op2)
     IN  /\ bedSetpoint' = IF rb.ok THEN fahrenheitToCelsius(rb.tempF) ELSE bedSetpoint
         /\ bedPowerOn' = IF rb.ok THEN rb.isOn ELSE bedPowerOn
         /\ pillowSetpoint' = IF rp.ok THEN fahrenheitToCelsius(rp.tempF) ELSE pillowSetpoint
         /\ pillowPowerOn' = IF rp.ok THEN rp.isOn ELSE pillowPowerOn
         /\ op' = [NoOp EXCEPT !.kind = "setup", !.res = [z \in Zones |-> IF z = "bed" THEN rb ELSE rp]]
  /\ since' = Advance(since, SETUP_DELAY_MS, FALSE)
  /\ bedTargetIP' = IF nvs.bedIP = <<>> THEN DefaultBedIP ELSE nvs.bedIP
  /\ pillowTargetIP' = IF nvs.pillowIP = <<>> THEN DefaultPillowIP ELSE nvs.pillowIP
  /\ savedWifi' = nvs.wifi
  /\ UNCHANGED <<inputs, pillowModeActive, nightModeOverride, menu, accs, pendingFreeSleepUpdate,
       backoff, centerTouchActive, remote, ghosts, ipEditor, wifiSetup, nvs, heldPress>>

\* ------------------------------------------------- control surface (HTTP)
\* server.handleClient() with no request waiting, or offline.
ClientIdle ==
  /\ pc = "client"
  /\ pc' = "encoder"
  /\ op' = NoOp
  /\ UNCHANGED <<inputs, wifiConnected, setpoints, power, pillowModeActive, prefs, menu, accs,
       pendingFreeSleepUpdate, backoff, centerTouchActive, since, remote, ghosts, submenus, heldPress>>

\* POST /api/temperature {"setpoint": v}
HandleAPISetTemperature(v) ==
  /\ pc = "client"
  /\ wifiConnected
  /\ inputs > 0
  /\ inputs' = inputs - 1
  /\ pc' = "encoder"
  /\ WriteSetpoint(ActiveZone, ClampTemp(v))
  /\ sinceEdit' = [sinceEdit EXCEPT ![ActiveZone] = 0]
  /\ armed' = ArmApi(armed, ActiveZone)
  /\ op' = [Did("api", {ActiveZone}, <<>>) EXCEPT !.api = Accepted(v)]
  /\ UNCHANGED <<wifiConnected, power, pillowModeActive, prefs, menu, accs, pendingFreeSleepUpdate,
       backoff, centerTouchActive, since, remote, recentToggle, submenus, heldPress>>

\* POST /api/bed and POST /api/pillow {"setpoint": v}: write the zone and
\* push it at once, to the side the handler names.
HandleAPISetZoneTemperature(z, side, v, o) ==
  /\ pc = "client"
  /\ wifiConnected
  /\ inputs > 0
  /\ inputs' = inputs - 1
  /\ pc' = "encoder"
  /\ WriteSetpoint(z, ClampTemp(v))
  /\ LET sent == SendTemperature(z, side, ClampTemp(v), o)
     IN  /\ remote' = sent.remote
         /\ since' = Advance(since, sent.dur, centerTouchActive)
         /\ sinceEdit' = AdvanceEdit([sinceEdit EXCEPT ![z] = 0], sent.dur)
         /\ op' = [Did("api", {z}, sent.reqs) EXCEPT !.api = Accepted(v)]
  /\ armed' = ArmApi(armed, z)
  /\ UNCHANGED <<wifiConnected, power, pillowModeActive, prefs, menu, accs, pendingFreeSleepUpdate,
       backoff, centerTouchActive, recentToggle, submenus, heldPress>>

\* A POST to any of the three setpoint endpoints with a body that is not
\* JSON or has no "setpoint": answered 400, nothing written.
HandleAPIBadRequest ==
  /\ pc = "client"
  /\ wifiConnected
  /\ inputs > 0
  /\ inputs' = inputs - 1
  /\ pc' = "encoder"
  /\ op' = [Did("api", {}, <<>>) EXCEPT !.api = Rejected]
  /\ UNCHANGED <<wifiConnected, setpoints, power, pillowModeActive, prefs, menu, accs,
       pendingFreeSleepUpdate, backoff, centerTouchActive, since, remote, ghosts, submenus, heldPress>>

\* POST /api/config/bed-ip and /api/config/pillow-ip {"ip": ...} with a
\* well-formed dotted quad: targetIP.fromString(ipStr), and nothing else.
HandleAPISetTargetIP(z, ip) ==
  /\ pc = "client"
  /\ wifiConnected
  /\ inputs > 0
  /\ inputs' = inputs - 1
  /\ pc' = "encoder"
  /\ bedTargetIP' = IF z = "bed" THEN ip ELSE bedTargetIP
  /\ pillowTargetIP' = IF z = "pillow" THEN ip ELSE pillowTargetIP
  /\ op' = Did("config", {}, <<>>)
  /\ UNCHANGED <<wifiConnected, setpoints, power, pillowModeActive, prefs, menu, accs,
       pendingFreeSleepUpdate, backoff, centerTouchActive, since, remote, ghosts, ipEditor,
       wifiSetup, savedWifi, nvs, heldPress>>

HandleAPISetBedTemperature(v, o) == HandleAPISetZoneTemperature("bed", "left", v, o)

HandleAPISetPillowTemperature(v, o) == HandleAPISetZoneTemperature("pillow", "right", v, o)

\* ----------------------------------------------------------------- encoder
\* handleEncoderInput() with no movement and no press: nothing changes on
\* any screen.
EncoderIdle ==
  /\ pc = "encoder"
  /\ ~(inSettingsMenu /\ currentSubMenu = "SUBMENU_WIFI_PASSWORD" /\ HoldDue)
  /\ pc' = "touch"
  /\ op' = NoOp
  /\ UNCHANGED <<inputs, wifiConnected, setpoints, power, pillowModeActive, prefs, menu, accs,
       pendingFreeSleepUpdate, backoff, centerTouchActive, since, remote, ghosts, submenus, heldPress>>

\* handleEncoderInput() on the main screen: `diff` raw counts, and the
\* button (reset to default).
HandleEncoderInput(diff, pressed) ==
  /\ pc = "encoder"
  /\ ~inSettingsMenu
  /\ diff # 0 \/ pressed
  /\ inputs > 0
  /\ inputs' = inputs - 1
  /\ pc' = "touch"
  /\ LET acc1 == encoderAccumulator + diff
         stepping == diff # 0 /\ Abs(acc1) >= DETENT
         steps == TruncDiv(acc1, DETENT)
         active == Setpoint(ActiveZone)
         newTemp == RotaryTemp(active, steps, useFahrenheit)
         rotated == stepping /\ newTemp # active
         wrote == rotated \/ pressed
     IN  /\ encoderAccumulator' = IF stepping THEN TruncMod(acc1, DETENT) ELSE acc1
         /\ WriteSetpoint(ActiveZone, IF pressed THEN TEMP_DEFAULT ELSE IF rotated THEN newTemp ELSE active)
         /\ since' = IF wrote THEN Stamp(since, "lastSetpointChangeTime") ELSE since
         /\ pendingFreeSleepUpdate' = (wrote \/ pendingFreeSleepUpdate)
         /\ sinceEdit' = IF wrote THEN DialEdit(sinceEdit, ActiveZone) ELSE sinceEdit
         /\ armed' = IF wrote THEN ArmDial(armed, ActiveZone) ELSE armed
         /\ op' = Turned("encoder", IF wrote THEN {ActiveZone} ELSE {}, diff,
                         IF stepping THEN steps ELSE 0, pressed)
  /\ UNCHANGED <<wifiConnected, power, pillowModeActive, prefs, menu, settingsAccumulator,
       ipEditorAccumulator, scannerAccumulator, passwordAccumulator, backoff, centerTouchActive,
       remote, recentToggle, submenus, heldPress>>

\* handleEncoderInSettings(): scroll the menu, and select with the button;
\* startWiFiScanner() finds n networks, startIPEditor() loads the address of
\* the selected zone.
HandleEncoderInSettings(diff, pressed, n) ==
  /\ pc = "encoder"
  /\ inSettingsMenu
  /\ currentSubMenu = "SUBMENU_NONE"
  /\ diff # 0 \/ pressed
  /\ inputs > 0
  /\ inputs' = inputs - 1
  /\ pc' = "touch"
  /\ LET acc1 == settingsAccumulator + diff
         stepping == diff # 0 /\ Abs(acc1) >= DETENT
         steps == TruncDiv(acc1, DETENT)
         item == IF stepping THEN MenuStep(currentMenuItem, steps) ELSE currentMenuItem
         scan == pressed /\ SelectedSubMenu(item) = "SUBMENU_WIFI_SCAN"
         edit == pressed /\ SelectedSubMenu(item) = "SUBMENU_IP_EDITOR"
     IN  /\ settingsAccumulator' = IF stepping THEN TruncMod(acc1, DETENT) ELSE acc1
         /\ currentMenuItem' = item
         /\ currentSubMenu' =
              IF scan THEN "SUBMENU_WIFI_SCAN"
              ELSE IF edit THEN "SUBMENU_IP_EDITOR" ELSE currentSubMenu
         /\ scannedSSIDCount' = IF scan THEN (IF n > MAX_SSIDS THEN MAX_SSIDS ELSE n) ELSE scannedSSIDCount
         /\ selectedSSIDIndex' = IF scan THEN 0 ELSE selectedSSIDIndex
         /\ editingBedIP' = IF edit THEN item = MENU_BED_IP ELSE editingBedIP
         /\ ipEditorOctet' = IF edit THEN 0 ELSE ipEditorOctet
         /\ tempIPOctets' =
              IF edit THEN (IF item = MENU_BED_IP THEN bedTargetIP ELSE pillowTargetIP)
              ELSE tempIPOctets
         /\ bedSideRight' = IF pressed /\ item = MENU_BED_SIDE THEN ~bedSideRight ELSE bedSideRight
         /\ useFahrenheit' = IF pressed /\ item = MENU_TEMP_UNIT THEN ~useFahrenheit ELSE useFahrenheit
         /\ nightModeOverride' =
              IF pressed /\ item = MENU_NIGHT_MODE THEN ~nightModeOverride ELSE nightModeOverride
         /\ pillowModeActive' =
              IF pressed /\ item = MENU_TEMPERATURE_MODE THEN ~pillowModeActive ELSE pillowModeActive
         /\ op' = Turned("settings", {}, diff, IF stepping THEN steps ELSE 0, pressed)
  /\ UNCHANGED <<wifiConnected, setpoints, power, inSettingsMenu, encoderAccumulator,
       ipEditorAccumulator, scannerAccumulator, passwordAccumulator, pendingFreeSleepUpdate,
       backoff, centerTouchActive, passwordCharIndex, wifiPasswordInput, stored, since, remote,
       ghosts, heldPress>>

\* handleEncoderInIPEditor(): turn the octet being edited, and move to the
\* next octet with the button; the fourth press stores the address.
HandleEncoderInIPEditor(diff, pressed) ==
  /\ pc = "encoder"
  /\ inSettingsMenu
  /\ currentSubMenu = "SUBMENU_IP_EDITOR"
  /\ diff # 0 \/ pressed
  /\ inputs > 0
  /\ inputs' = inputs - 1
  /\ pc' = "touch"
  /\ LET acc1 == ipEditorAccumulator + diff
         stepping == diff # 0 /\ Abs(acc1) >= DETENT
         steps == TruncDiv(acc1, DETENT)
         octets == IF stepping
                   THEN [tempIPOctets EXCEPT ![ipEditorOctet + 1] = OctetStep(@, steps)]
                   ELSE tempIPOctets
         octet == IF pressed THEN ipEditorOctet + 1 ELSE ipEditorOctet
         save == pressed /\ AddressComplete(octet)
     IN  /\ ipEditorAccumulator' = IF stepping THEN TruncMod(acc1, DETENT) ELSE acc1
         /\ tempIPOctets' = octets
         /\ ipEditorOctet' = octet
         /\ bedTargetIP' = IF save /\ editingBedIP THEN octets ELSE bedTargetIP
         /\ pillowTargetIP' = IF save /\ ~editingBedIP THEN octets ELSE pillowTargetIP
         /\ nvs' = IF ~save THEN nvs
                   ELSE IF editingBedIP THEN [nvs EXCEPT !.bedIP = octets]
                   ELSE [nvs EXCEPT !.pillowIP = octets]
         /\ currentSubMenu' = IF save THEN "SUBMENU_NONE" ELSE currentSubMenu
         /\ op' = Turned("ipEditor", {}, diff, IF stepping THEN steps ELSE 0, pressed)
  /\ UNCHANGED <<wifiConnected, setpoints, power, pillowModeActive, prefs, inSettingsMenu,
       currentMenuItem, encoderAccumulator, settingsAccumulator, scannerAccumulator,
       passwordAccumulator, pendingFreeSleepUpdate, backoff, centerTouchActive, editingBedIP,
       wifiSetup, savedWifi, since, remote, ghosts, heldPress>>

\* handleEncoderInWiFiScanner(): move the selection, and pick the network
\* with the button (startPasswordEntry()).
HandleEncoderInWiFiScanner(diff, pressed) ==
  /\ pc = "encoder"
  /\ inSettingsMenu
  /\ currentSubMenu = "SUBMENU_WIFI_SCAN"
  /\ diff # 0 \/ pressed
  /\ inputs > 0
  /\ inputs' = inputs - 1
  /\ pc' = "touch"
  /\ LET acc1 == scannerAccumulator + diff
         stepping == diff # 0 /\ Abs(acc1) >= DETENT /\ scannedSSIDCount > 0
         steps == TruncDiv(acc1, DETENT)
         enter == NetworkChosen(pressed, scannedSSIDCount)
     IN  /\ scannerAccumulator' = IF stepping THEN TruncMod(acc1, DETENT) ELSE acc1
         /\ selectedSSIDIndex' =
              IF stepping THEN SelectStep(selectedSSIDIndex, steps, scannedSSIDCount)
              ELSE selectedSSIDIndex
         /\ currentSubMenu' = IF enter THEN "SUBMENU_WIFI_PASSWORD" ELSE currentSubMenu
         /\ wifiPasswordInput' = IF enter THEN <<>> ELSE wifiPasswordInput
         /\ passwordCharIndex' = IF enter THEN 0 ELSE passwordCharIndex
         /\ heldPress' = IF enter THEN [down |-> TRUE, buffer |-> <<>>] ELSE heldPress
         /\ op' = Turned("scanner", {}, diff, IF stepping THEN steps ELSE 0, pressed)
  /\ UNCHANGED <<wifiConnected, setpoints, power, pillowModeActive, prefs, inSettingsMenu,
       currentMenuItem, encoderAccumulator, settingsAccumulator, ipEditorAccumulator,
       passwordAccumulator, pendingFreeSleepUpdate, backoff, centerTouchActive, ipEditor,
       scannedSSIDCount, stored, since, remote, ghosts>>

\* The release of a press followed on the password screen, in a call with
\* no movement: no handler reads wasReleased().
ButtonReleased ==
  /\ pc = "encoder"
  /\ inSettingsMenu
  /\ currentSubMenu = "SUBMENU_WIFI_PASSWORD"
  /\ heldPress.down
  /\ inputs > 0
  /\ inputs' = inputs - 1
  /\ pc' = "touch"
  /\ heldPress' = NoPress
  /\ since' = [since EXCEPT !.lastButtonChange = 0]
  /\ op' = NoOp
  /\ UNCHANGED <<wifiConnected, setpoints, power, pillowModeActive, prefs, menu, accs,
       pendingFreeSleepUpdate, backoff, centerTouchActive, remote, ghosts, submenus>>

\* handleEncoderInPasswordEntry(): pick a character, append it with the
\* button (a press edge, so not while the button is still down), and
\* submit when the button has been down for 1000 ms: WiFi.begin(), the
\* wait for a connection reported after `after` waits, the result shown
\* for 2000 ms.
HandleEncoderInPasswordEntry(diff, pressed, after) ==
  /\ pc = "encoder"
  /\ inSettingsMenu
  /\ currentSubMenu = "SUBMENU_WIFI_PASSWORD"
  /\ pressed => ~heldPress.down
  /\ diff # 0 \/ pressed \/ HoldDue
  /\ (diff # 0 \/ pressed) => inputs > 0
  /\ inputs' = IF diff # 0 \/ pressed THEN inputs - 1 ELSE inputs
  /\ pc' = "touch"
  /\ LET held == HoldDue
         acc1 == passwordAccumulator + diff
         stepping == diff # 0 /\ Abs(acc1) >= DETENT
         steps == TruncDiv(acc1, DETENT)
         index == IF stepping THEN TruncMod(passwordCharIndex + steps + ALPHA_LEN, ALPHA_LEN)
                  ELSE passwordCharIndex
         input == IF pressed THEN Append(wifiPasswordInput, index) ELSE wifiPasswordInput
         wait == ConnectWait(after)
         joined == held /\ wait.joined
         found == [ssid |-> selectedSSIDIndex, pass |-> input]
         dur == IF held THEN wait.waits * CONNECT_POLL_MS + CONNECT_SHOWN_MS ELSE 0
     IN  /\ passwordAccumulator' = IF stepping THEN TruncMod(acc1, DETENT) ELSE acc1
         /\ passwordCharIndex' = index
         /\ wifiPasswordInput' = input
         /\ wifiConnected' = (joined \/ wifiConnected)
         /\ savedWifi' = IF joined THEN found ELSE savedWifi
         /\ nvs' = IF joined THEN [nvs EXCEPT !.wifi = found] ELSE nvs
         /\ currentSubMenu' = IF held THEN "SUBMENU_NONE" ELSE currentSubMenu
         /\ heldPress' =
              IF held THEN NoPress
              ELSE IF pressed THEN [down |-> TRUE, buffer |-> wifiPasswordInput] ELSE heldPress
         /\ since' = [Advance(since, dur, centerTouchActive)
                        EXCEPT !.lastButtonChange = IF held \/ pressed THEN 0 ELSE @]
         /\ sinceEdit' = AdvanceEdit(sinceEdit, dur)
         /\ op' = [Turned("password", {}, diff, IF stepping THEN steps ELSE 0, pressed \/ held)
                     EXCEPT !.attempt = IF held THEN [tried |-> TRUE, waits |-> wait.waits,
                                                      joined |-> wait.joined, pass |-> input]
                                        ELSE NoAttempt]
  /\ UNCHANGED <<setpoints, power, pillowModeActive, prefs, inSettingsMenu, currentMenuItem,
       encoderAccumulator, settingsAccumulator, ipEditorAccumulator, scannerAccumulator,
       pendingFreeSleepUpdate, backoff, centerTouchActive, ipEditor, scannedSSIDCount,
       selectedSSIDIndex, bedTargetIP, pillowTargetIP, remote, armed, recentToggle>>

\* ------------------------------------------------------------------- touch
\* Hit regions in which the zone buttons stay live under the settings menu.
TouchRegionButtonsFirst(x, y) ==
  IF Abs(x - 50) < 20 /\ Abs(y - (SCREEN_HEIGHT - 55)) < 20 THEN "pillowButton"
  ELSE IF Abs(x - (SCREEN_WIDTH - 50)) < 20 /\ Abs(y - (SCREEN_HEIGHT - 55)) < 20 THEN "bedButton"
  ELSE IF inSettingsMenu THEN "exit"
  ELSE IF Abs(x - centerX) < 60 /\ y > SCREEN_HEIGHT - 45 /\ y < SCREEN_HEIGHT THEN "strip"
  ELSE "none"

\* The hit region of a press at (x, y), in the order handleTouchInput
\* tests them.
TouchRegion(x, y) ==
  LET dx == x - centerX
      dy == y - centerY
      d2 == dx * dx + dy * dy
      lo == arcRadius - arcThickness - 10
      hi == arcRadius + 30
  IN  IF inSettingsMenu THEN "exit"
      ELSE IF Abs(dx) < 60 /\ Abs(dy) < 60 THEN "center"
      ELSE IF Abs(dx) < 60 /\ y > SCREEN_HEIGHT - 45 /\ y < SCREEN_HEIGHT THEN "strip"
      ELSE IF Abs(x - 50) < 20 /\ Abs(y - (SCREEN_HEIGHT - 55)) < 20 THEN "pillowButton"
      ELSE IF Abs(x - (SCREEN_WIDTH - 50)) < 20 /\ Abs(y - (SCREEN_HEIGHT - 55)) < 20 THEN "bedButton"
      ELSE IF d2 > lo * lo /\ d2 < hi * hi /\ ArcTemp(TouchAngle(dx, dy)) >= 0 THEN "arc"
      ELSE "none"

\* handleTouchInput() with no press and no release of a centre gesture.
TouchIdle ==
  /\ pc = "touch"
  /\ pc' = "push"
  /\ op' = NoOp
  /\ UNCHANGED <<inputs, wifiConnected, setpoints, power, pillowModeActive, prefs, menu, accs,
       pendingFreeSleepUpdate, backoff, centerTouchActive, since, remote, ghosts, submenus, heldPress>>

\* handleTouchInput(), touch.wasPressed() at (x, y).
TouchPressed(x, y) ==
  /\ pc = "touch"
  /\ inputs > 0
  /\ inputs' = inputs - 1
  /\ pc' = "push"
  /\ LET region == TouchRegion(x, y)
         arc == region = "arc"
     IN  /\ currentSubMenu' =
              IF region = "exit" THEN ExitTouch(currentSubMenu).subMenu ELSE currentSubMenu
         /\ inSettingsMenu' =
              IF region = "exit" THEN ExitTouch(currentSubMenu).open
              ELSE IF region = "strip" THEN TRUE ELSE inSettingsMenu
         /\ heldPress' = IF region = "exit" THEN NoPress ELSE heldPress
         /\ centerTouchActive' = IF region = "center" THEN TRUE ELSE centerTouchActive
         /\ pillowModeActive' =
              IF region = "pillowButton" THEN TRUE
              ELSE IF region = "bedButton" THEN FALSE ELSE pillowModeActive
         /\ WriteSetpoint(ActiveZone,
              IF arc THEN ArcTemp(TouchAngle(x - centerX, y - centerY)) ELSE Setpoint(ActiveZone))
         /\ since' =
              IF region = "center" THEN Stamp(since, "centerTouchStartTime")
              ELSE IF arc THEN Stamp(since, "lastSetpointChangeTime")
              ELSE IF region = "exit" THEN Stamp(since, "lastButtonChange") ELSE since
         /\ pendingFreeSleepUpdate' = (arc \/ pendingFreeSleepUpdate)
         /\ sinceEdit' = IF arc THEN DialEdit(sinceEdit, ActiveZone) ELSE sinceEdit
         /\ armed' = IF arc THEN ArmDial(armed, ActiveZone) ELSE armed
         /\ op' = [Did("press", IF arc THEN {ActiveZone} ELSE {}, <<>>)
                     EXCEPT !.activity = IF region = "center" THEN "none" ELSE "now"]
  /\ UNCHANGED <<wifiConnected, power, prefs, currentMenuItem, accs, backoff, remote, recentToggle,
       submenus>>

\* handleTouchInput(), touch.wasReleased() with a centre gesture active;
\* toggleActivePower() in the power band. `dimmed` is isDimmed, the state
\* of the brightness policy, as the quick tap finds it.
TouchReleased(o, dimmed) ==
  /\ pc = "touch"
  /\ centerTouchActive
  /\ pc' = "push"
  /\ centerTouchActive' = FALSE
  /\ LET accepted == TapAccepted(since.lastCenterTapTime)
         band == IF accepted THEN TapBand(since.centerTouchStartTime) ELSE "ignored"
         z == ActiveZone
         sent == IF band = "power" THEN SendPower(z, Side, ~PowerOn(z), o)
                 ELSE [reqs |-> <<>>, dur |-> 0, remote |-> remote]
     IN  /\ bedPowerOn' = IF band = "power" /\ z = "bed" THEN ~bedPowerOn ELSE bedPowerOn
         /\ pillowPowerOn' = IF band = "power" /\ z = "pillow" THEN ~pillowPowerOn ELSE pillowPowerOn
         /\ nightModeOverride' = IF band = "night" THEN ~nightModeOverride ELSE nightModeOverride
         /\ inSettingsMenu' = IF band = "settings" THEN TRUE ELSE inSettingsMenu
         /\ currentMenuItem' = IF band = "settings" THEN MENU_WIFI_SETTINGS ELSE currentMenuItem
         /\ currentSubMenu' = IF band = "settings" THEN "SUBMENU_NONE" ELSE currentSubMenu
         /\ remote' = sent.remote
         /\ since' = Advance(IF accepted THEN Stamp(since, "lastCenterTapTime") ELSE since,
                             sent.dur, FALSE)
         /\ sinceEdit' = AdvanceEdit(sinceEdit, sent.dur)
         /\ recentToggle' = IF band = "power" THEN recentToggle \cup {z} ELSE recentToggle
         /\ op' = [Did(band, {}, sent.reqs)
                     EXCEPT !.activity = IF band # "dim" THEN "none"
                                         ELSE IF dimmed THEN "now" ELSE "zero"]
  /\ UNCHANGED <<inputs, wifiConnected, setpoints, pillowModeActive, useFahrenheit, bedSideRight,
       accs, pendingFreeSleepUpdate, backoff, armed, submenus, heldPress>>

\* ------------------------------------------------------ debounced push
\* The zone the debounced push of loop() addresses.
FlushTarget == ActiveZone

\* loop(): currentMillis = millis(); the pending push is due.
FlushPending(o) ==
  /\ pc = "push"
  /\ FlushDue(pendingFreeSleepUpdate, since.lastSetpointChangeTime)
  /\ pc' = "sync"
  /\ pendingFreeSleepUpdate' = PendingAfterFlush(o)
  /\ LET sent == SendTemperature(FlushTarget, Side, Setpoint(FlushTarget), o)
     IN  /\ remote' = sent.remote
         /\ since' = Advance(Stamp(since, "currentMillis"), sent.dur, centerTouchActive)
         /\ sinceEdit' = AdvanceEdit(sinceEdit, sent.dur)
         /\ op' = Did("flush", {}, sent.reqs)
  /\ armed' = NoneArmed
  /\ UNCHANGED <<inputs, wifiConnected, setpoints, power, pillowModeActive, prefs, menu, accs,
       backoff, centerTouchActive, recentToggle, submenus, heldPress>>

\* loop(): no push is due.
FlushSkip ==
  /\ pc = "push"
  /\ ~FlushDue(pendingFreeSleepUpdate, since.lastSetpointChangeTime)
  /\ pc' = "sync"
  /\ since' = Stamp(since, "currentMillis")
  /\ op' = NoOp
  /\ UNCHANGED <<inputs, wifiConnected, setpoints, power, pillowModeActive, prefs, menu, accs,
       pendingFreeSleepUpdate, backoff, centerTouchActive, remote, ghosts, submenus, heldPress>>

\* ---------------------------------------------------------- periodic poll
\* A poll guard that does not look at the pending push.
SyncDueIgnoringPending ==
  /\ wifiConnected
  /\ ~inSettingsMenu
  /\ since.lastFreeSleepSync - since.currentMillis >= currentSyncInterval

\* A poll guard that does not look at the screen.
SyncDueOnAnyScreen ==
  /\ wifiConnected
  /\ ~pendingFreeSleepUpdate
  /\ since.lastFreeSleepSync - since.currentMillis >= currentSyncInterval

\* The guard of the periodic sync in loop().
SyncDue ==
  /\ wifiConnected
  /\ ~inSettingsMenu
  /\ ~pendingFreeSleepUpdate
  /\ since.lastFreeSleepSync - since.currentMillis >= currentSyncInterval

\* loop(): lastFreeSleepSync = currentMillis; syncFromFreeSleep().
PollCycle(maxFailures, ob, op2) ==
  /\ pc = "sync"
  /\ SyncDue
  /\ (ob # "ok" /\ op2 # "ok") => consecutiveFailures < maxFailures
  /\ pc' = "delay"
  /\ LET allowTempSync == AllowTempSync(since.lastSetpointChangeTime)
         rb == Fetch(wifiConnected, "bed", Side, ob)
         rp == Fetch(wifiConnected, "pillow", Side, op2)
         anySuccess == rb.ok \/ rp.ok
         next == SyncBackoff(anySuccess, currentSyncInterval, consecutiveFailures)
         dur == CallDuration(ob) + CallDuration(op2)
         s1 == [since EXCEPT !.lastFreeSleepSync = since.currentMillis, !.currentMillis = 0]
     IN  /\ bedPowerOn' = MergePower(bedPowerOn, rb)
         /\ bedSetpoint' = MergeTemp(bedSetpoint, rb, allowTempSync)
         /\ pillowPowerOn' = MergePower(pillowPowerOn, rp)
         /\ pillowSetpoint' = MergeTemp(pillowSetpoint, rp, allowTempSync)
         /\ currentSyncInterval' = next.interval
         /\ consecutiveFailures' = next.failures
         /\ since' = [Advance(s1, dur, centerTouchActive) EXCEPT !.currentMillis = 0]
         /\ sinceEdit' = AdvanceEdit(sinceEdit, dur)
         /\ op' = [NoOp EXCEPT !.kind = "poll",
                                !.res = [z \in Zones |-> IF z = "bed" THEN rb ELSE rp],
                                !.before = [setpoint |-> [z \in Zones |-> Setpoint(z)],
                                            power |-> [z \in Zones |-> PowerOn(z)],
                                            interval |-> currentSyncInterval,
                                            failures |-> consecutiveFailures,
                                            sinceChange |-> since.lastSetpointChangeTime,
                                            sinceEdit |-> [z \in Zones |-> sinceEdit[z]]]]
  /\ UNCHANGED <<inputs, wifiConnected, pillowModeActive, prefs, menu, accs, pendingFreeSleepUpdate,
       centerTouchActive, remote, armed, recentToggle, submenus, heldPress>>

PeriodicSync(ob, op2) == PollCycle(MaxFailures, ob, op2)

\* loop(): the periodic sync is not due, or is held off.
SyncSkip ==
  /\ pc = "sync"
  /\ ~SyncDue
  /\ pc' = "delay"
  /\ since' = [since EXCEPT !.currentMillis = 0]
  /\ op' = NoOp
  /\ UNCHANGED <<inputs, wifiConnected, setpoints, power, pillowModeActive, prefs, menu, accs,
       pendingFreeSleepUpdate, backoff, centerTouchActive, remote, ghosts, submenus, heldPress>>

\* ------------------------------------------------------------ end of tick
\* delay(10) and the rest of the iteration: time moves on by dt.
Delay(dt) ==
  /\ pc = "delay"
  /\ pc' = "client"
  /\ since' = [Advance(since, dt, centerTouchActive) EXCEPT !.currentMillis = 0]
  /\ sinceEdit' = AdvanceEdit(sinceEdit, dt)
  /\ recentToggle' = {}
  /\ op' = NoOp
  /\ UNCHANGED <<inputs, wifiConnected, setpoints, power, pillowModeActive, prefs, menu, accs,
       pendingFreeSleepUpdate, backoff, centerTouchActive, remote, armed, submenus, heldPress>>

\* The remote side is changed by someone else (its own app).
RemoteChanged(z, r) ==
  /\ pc = "delay"
  /\ inputs > 0
  /\ remote[z] # [sd \in Sides |-> r]
  /\ inputs' = inputs - 1
  /\ remote' = [remote EXCEPT ![z] = [sd \in Sides |-> r]]
  /\ UNCHANGED <<pc, wifiConnected, setpoints, power, pillowModeActive, prefs, menu, accs,
       pendingFreeSleepUpdate, backoff, centerTouchActive, since, ghosts, op, submenus, heldPress>>

\* ---------------------------------------------------------- specification
Next ==
  \/ \E c \in BOOLEAN : \E pr \in BootPrefs : \E ob, op2 \in NetOutcomes : Setup(c, pr[1], pr[2], ob, op2)
  \/ ClientIdle
  \/ \E v \in ApiValues : HandleAPISetTemperature(v)
  \/ \E v \in ApiValues : \E o \in NetOutcomes : HandleAPISetBedTemperature(v, o)
  \/ \E v \in ApiValues : \E o \in NetOutcomes : HandleAPISetPillowTemperature(v, o)
  \/ EncoderIdle
  \/ \E e \in EncoderInputs : HandleEncoderInput(e[1], e[2])
  \/ \E e \in EncoderInputs : \E n \in ScanResults : HandleEncoderInSettings(e[1], e[2], n)
  \/ TouchIdle
  \/ \E pt \in TouchPoints : TouchPressed(pt[1], pt[2])
  \/ \E o \in NetOutcomes : \E dimmed \in BOOLEAN : TouchReleased(o, dimmed)
  \/ \E o \in NetOutcomes : FlushPending(o)
  \/ FlushSkip
  \/ \E ob, op2 \in NetOutcomes : PeriodicSync(ob, op2)
  \/ SyncSkip
  \/ Delay(TickMs)
  \/ \E z \in Zones : \E r \in RemoteStates : RemoteChanged(z, r)

Spec == Init /\ [][Next]_vars

\* The reconciliation engine alone, with an idle user: the specification of
\* the backoff claims, where the remote may fail many cycles in a row.
PeriodicSyncBackoff(ob, op2) == PollCycle(MaxBackoffFailures, ob, op2)

NextBackoff ==
  \/ \E c \in BOOLEAN : \E pr \in BootPrefs : \E ob, op2 \in NetOutcomes : Setup(c, pr[1], pr[2], ob, op2)
  \/ ClientIdle
  \/ EncoderIdle
  \/ TouchIdle
  \/ FlushSkip
  \/ \E ob, op2 \in FetchOutcomes : PeriodicSyncBackoff(ob, op2)
  \/ SyncSkip
  \/ Delay(TickMs)

SpecBackoff == Init /\ [][NextBackoff]_vars

TypeOK ==
  /\ pc \in {"setup", "client", "encoder", "touch", "push", "sync", "delay"}
  /\ inputs \in 0..MaxInputs
  /\ currentMenuItem \in 0..(MENU_COUNT - 1)
  /\ currentSubMenu \in SubMenu
  /\ \A f \in DOMAIN SinceCap : since[f] \in 0..(MAX_SYNC_INTERVAL_MS + HTTP_TIMEOUT_MS)


\* The front panel alone: the dial and the touch screen on every screen,
\* with the network down.
InitPanel == Boot(MaxPanelInputs)

NextPanel ==
  \/ \E pr \in BootPrefs : Setup(FALSE, pr[1], pr[2], "timeout", "timeout")
  \/ ClientIdle
  \/ EncoderIdle
  \/ \E e \in PanelInputs : HandleEncoderInput(e[1], e[2])
  \/ \E e \in PanelInputs : \E n \in PanelScanResults : HandleEncoderInSettings(e[1], e[2], n)
  \/ \E e \in PanelInputs : HandleEncoderInIPEditor(e[1], e[2])
  \/ \E e \in PanelInputs : HandleEncoderInWiFiScanner(e[1], e[2])
  \/ \E e \in PasswordInputs : \E after \in ConnectAfter :
       HandleEncoderInPasswordEntry(e[1], e[2], after)
  \/ ButtonReleased
  \/ TouchIdle
  \/ \E pt \in GesturePoints : TouchPressed(pt[1], pt[2])
  \/ \E dimmed \in BOOLEAN : TouchReleased("ok", dimmed)
  \/ FlushPending("ok")
  \/ FlushSkip
  \/ SyncSkip
  \/ Delay(TickMs)

SpecPanel == InitPanel /\ [][NextPanel]_vars

\* The centre gestures alone, with loop() iterations short enough to tell
\* the four duration bands apart.
InitTouch == Boot(MaxTouchInputs)

NextTouch ==
  \/ \E c \in BOOLEAN : \E pr \in BootPrefs : Setup(c, pr[1], pr[2], "ok", "ok")
  \/ ClientIdle
  \/ EncoderIdle
  \/ TouchIdle
  \/ \E pt \in GesturePoints : TouchPressed(pt[1], pt[2])
  \/ \E dimmed \in BOOLEAN : TouchReleased("ok", dimmed)
  \/ FlushSkip
  \/ PeriodicSync("ok", "ok")
  \/ SyncSkip
  \/ \E dt \in GestureDelays : Delay(dt)

SpecTouch == InitTouch /\ [][NextTouch]_vars

\* The address editor just opened: the device offline and idle on the
\* settings menu, the button pressed on one of the two address items
\* (startIPEditor()), the zone holding one of `addresses`.
EditorOpen(budget, addresses) ==
  \E address \in addresses : \E forBed \in BOOLEAN :
    /\ pc = "touch"
    /\ inputs = budget
    /\ wifiConnected = FALSE
    /\ bedSetpoint = TEMP_DEFAULT
    /\ pillowSetpoint = TEMP_DEFAULT
    /\ bedPowerOn = TRUE
    /\ pillowPowerOn = TRUE
    /\ pillowModeActive = FALSE
    /\ useFahrenheit = FALSE
    /\ bedSideRight = FALSE
    /\ nightModeOverride = FALSE
    /\ inSettingsMenu = TRUE
    /\ currentMenuItem = IF forBed THEN MENU_BED_IP ELSE MENU_PILLOW_IP
    /\ currentSubMenu = "SUBMENU_IP_EDITOR"
    /\ encoderAccumulator = 0
    /\ settingsAccumulator = 0
    /\ pendingFreeSleepUpdate = FALSE
    /\ currentSyncInterval = FREESLEEP_SYNC_INTERVAL_MS
    /\ consecutiveFailures = 0
    /\ centerTouchActive = FALSE
    /\ ipEditorAccumulator = 0
    /\ scannerAccumulator = 0
    /\ passwordAccumulator = 0
    /\ editingBedIP = forBed
    /\ ipEditorOctet = 0
    /\ tempIPOctets = address
    /\ scannedSSIDCount = 0
    /\ selectedSSIDIndex = 0
    /\ passwordCharIndex = 0
    /\ wifiPasswordInput = <<>>
    /\ bedTargetIP = IF forBed THEN address ELSE DefaultBedIP
    /\ pillowTargetIP = IF forBed THEN DefaultPillowIP ELSE address
    /\ savedWifi = NoWifi
    /\ nvs = [EmptyNvs EXCEPT !.bedIP = IF forBed THEN address ELSE <<>>,
                              !.pillowIP = IF forBed THEN <<>> ELSE address]
    /\ since = [f \in DOMAIN SinceCap |->
                  IF f \in {"centerTouchStartTime", "lastButtonChange"} THEN 0 ELSE SinceCap[f]]
    /\ remote = [z \in Zones |-> [sd \in Sides |-> RemoteInit]]
    /\ sinceEdit = [z \in EditKeys |-> EditCap]
    /\ armed = NoneArmed
    /\ recentToggle = {}
    /\ heldPress = NoPress
    /\ op = Turned("settings", {}, 0, 0, TRUE)

\* The editor on a stored address, in runs long enough to store it again.
InitEditor == EditorOpen(MaxEditorInputs, {StaticBedIP})

\* The editor on every value of the first octet.
InitOctet == EditorOpen(MaxOctetInputs, EditorAddresses)

NextEditor ==
  \/ ClientIdle
  \/ EncoderIdle
  \/ \E e \in EditorInputs : HandleEncoderInIPEditor(e[1], e[2])
  \/ TouchIdle
  \/ TouchPressed(120, 220)
  \/ FlushSkip
  \/ SyncSkip
  \/ Delay(TickMs)

SpecEditor == InitEditor /\ [][NextEditor]_vars

SpecOctet == InitOctet /\ [][NextEditor]_vars

\* The editor and the settings menu under it: the editor can be left, by a
\* touch or by the fourth press, and opened again.
NextReentry ==
  \/ NextEditor
  \/ \E e \in EditorInputs : \E n \in ScanResults : HandleEncoderInSettings(e[1], e[2], n)

SpecReentry == InitEditor /\ [][NextReentry]_vars

\* The password screen just opened: the device offline and idle, a scan
\* that found two networks, and the button pressed, and still down, on one
\* of them (startPasswordEntry()).
PasswordOpen(budget) ==
  \E selected \in 0..1 :
    /\ pc = "touch"
    /\ inputs = budget
    /\ wifiConnected = FALSE
    /\ bedSetpoint = TEMP_DEFAULT
    /\ pillowSetpoint = TEMP_DEFAULT
    /\ bedPowerOn = TRUE
    /\ pillowPowerOn = TRUE
    /\ pillowModeActive = FALSE
    /\ useFahrenheit = FALSE
    /\ bedSideRight = FALSE
    /\ nightModeOverride = FALSE
    /\ inSettingsMenu = TRUE
    /\ currentMenuItem = MENU_WIFI_SETTINGS
    /\ currentSubMenu = "SUBMENU_WIFI_PASSWORD"
    /\ encoderAccumulator = 0
    /\ settingsAccumulator = 0
    /\ pendingFreeSleepUpdate = FALSE
    /\ currentSyncInterval = FREESLEEP_SYNC_INTERVAL_MS
    /\ consecutiveFailures = 0
    /\ centerTouchActive = FALSE
    /\ ipEditorAccumulator = 0
    /\ scannerAccumulator = 0
    /\ passwordAccumulator = 0
    /\ editingBedIP = FALSE
    /\ ipEditorOctet = 0
    /\ tempIPOctets = InitialTempIPOctets
    /\ scannedSSIDCount = 2
    /\ selectedSSIDIndex = selected
    /\ passwordCharIndex = 0
    /\ wifiPasswordInput = <<>>
    /\ bedTargetIP = DefaultBedIP
    /\ pillowTargetIP = DefaultPillowIP
    /\ savedWifi = NoWifi
    /\ nvs = EmptyNvs
    /\ since = [f \in DOMAIN SinceCap |->
                  IF f \in {"centerTouchStartTime", "lastButtonChange"} THEN 0 ELSE SinceCap[f]]
    /\ remote = [z \in Zones |-> [sd \in Sides |-> RemoteInit]]
    /\ sinceEdit = [z \in EditKeys |-> EditCap]
    /\ armed = NoneArmed
    /\ recentToggle = {}
    /\ heldPress = [down |-> TRUE, buffer |-> <<>>]
    /\ op = Turned("scanner", {}, 0, 0, TRUE)

InitPassword == PasswordOpen(MaxPasswordInputs)

NextPassword ==
  \/ ClientIdle
  \/ EncoderIdle
  \/ \E e \in PasswordInputs : \E after \in ConnectAfter :
       HandleEncoderInPasswordEntry(e[1], e[2], after)
  \/ ButtonReleased
  \/ TouchIdle
  \/ TouchPressed(120, 220)
  \/ FlushSkip
  \/ PeriodicSync("ok", "ok")
  \/ SyncSkip
  \/ Delay(TickMs)

SpecPassword == InitPassword /\ [][NextPassword]_vars

\* The settings menu just opened by a long centre press (handleTouchInput),
\* the device connected; pending: the dial was turned during the press, so
\* a debounced push is waiting.
SettingsOpen(budget) ==
  \E pending \in BOOLEAN :
    /\ pc = "push"
    /\ inputs = budget
    /\ wifiConnected = TRUE
    /\ bedSetpoint = IF pending THEN TEMP_DEFAULT + Scale ELSE TEMP_DEFAULT
    /\ pillowSetpoint = TEMP_DEFAULT
    /\ bedPowerOn = TRUE
    /\ pillowPowerOn = TRUE
    /\ pillowModeActive = FALSE
    /\ useFahrenheit = FALSE
    /\ bedSideRight = FALSE
    /\ nightModeOverride = FALSE
    /\ inSettingsMenu = TRUE
    /\ currentMenuItem = MENU_WIFI_SETTINGS
    /\ currentSubMenu = "SUBMENU_NONE"
    /\ encoderAccumulator = 0
    /\ settingsAccumulator = 0
    /\ pendingFreeSleepUpdate = pending
    /\ currentSyncInterval = FREESLEEP_SYNC_INTERVAL_MS
    /\ consecutiveFailures = 0
    /\ centerTouchActive = FALSE
    /\ ipEditorAccumulator = 0
    /\ scannerAccumulator = 0
    /\ passwordAccumulator = 0
    /\ editingBedIP = FALSE
    /\ ipEditorOctet = 0
    /\ tempIPOctets = InitialTempIPOctets
    /\ scannedSSIDCount = 0
    /\ selectedSSIDIndex = 0
    /\ passwordCharIndex = 0
    /\ wifiPasswordInput = <<>>
    /\ bedTargetIP = DefaultBedIP
    /\ pillowTargetIP = DefaultPillowIP
    /\ savedWifi = NoWifi
    /\ nvs = EmptyNvs
    /\ since = [f \in DOMAIN SinceCap |->
                  IF f \in {"centerTouchStartTime", "lastButtonChange", "lastCenterTapTime"} THEN 0
                  ELSE IF f = "lastSetpointChangeTime" /\ pending THEN 0
                  ELSE SinceCap[f]]
    /\ remote = [z \in Zones |-> [sd \in Sides |-> RemoteInit]]
    /\ sinceEdit = [z \in EditKeys |-> IF pending /\ z # "pillow" THEN 0 ELSE EditCap]
    /\ armed = IF pending THEN ArmDial(NoneArmed, "bed") ELSE NoneArmed
    /\ recentToggle = {}
    /\ heldPress = NoPress
    /\ op = Did("settings", {}, <<>>)

InitMenu == SettingsOpen(MaxMenuInputs)

NextMenu ==
  \/ ClientIdle
  \/ EncoderIdle
  \/ \E e \in EncoderInputs : HandleEncoderInput(e[1], e[2])
  \/ \E e \in EncoderInputs : \E n \in ScanResults : HandleEncoderInSettings(e[1], e[2], n)
  \/ \E e \in EncoderInputs : HandleEncoderInIPEditor(e[1], e[2])
  \/ \E e \in EncoderInputs : HandleEncoderInWiFiScanner(e[1], e[2])
  \/ \E e \in EncoderInputs : HandleEncoderInPasswordEntry(e[1], e[2], CONNECT_ATTEMPTS)
  \/ ButtonReleased
  \/ TouchIdle
  \/ \E pt \in MenuPoints : TouchPressed(pt[1], pt[2])
  \/ \E o \in NetOutcomes : FlushPending(o)
  \/ FlushSkip
  \/ \E ob, op2 \in NetOutcomes : PeriodicSync(ob, op2)
  \/ SyncSkip
  \/ Delay(TickMs)

SpecMenu == InitMenu /\ [][NextMenu]_vars

\* Setpoints a remote may hold, in whole degrees Fahrenheit: those whose
\* Celsius value lies in [TEMP_MIN, TEMP_MAX].
RoundTripTemps == 50..95

\* The state after setup() has connected and synced both zones, the bed's
\* remote holding one of `temps`, in either presentation mode.
Synced(budget, temps) ==
  \E f \in temps : \E fahrenheit \in BOOLEAN :
    /\ pc = "client"
    /\ inputs = budget
    /\ wifiConnected = TRUE
    /\ bedSetpoint = fahrenheitToCelsius(f)
    /\ pillowSetpoint = fahrenheitToCelsius(RemoteInit.tempF)
    /\ bedPowerOn = TRUE
    /\ pillowPowerOn = TRUE
    /\ pillowModeActive = FALSE
    /\ useFahrenheit = fahrenheit
    /\ bedSideRight = FALSE
    /\ nightModeOverride = FALSE
    /\ inSettingsMenu = FALSE
    /\ currentMenuItem = MENU_WIFI_SETTINGS
    /\ currentSubMenu = "SUBMENU_NONE"
    /\ encoderAccumulator = 0
    /\ settingsAccumulator = 0
    /\ pendingFreeSleepUpdate = FALSE
    /\ currentSyncInterval = FREESLEEP_SYNC_INTERVAL_MS
    /\ consecutiveFailures = 0
    /\ centerTouchActive = FALSE
    /\ ipEditorAccumulator = 0
    /\ scannerAccumulator = 0
    /\ passwordAccumulator = 0
    /\ editingBedIP = FALSE
    /\ ipEditorOctet = 0
    /\ tempIPOctets = InitialTempIPOctets
    /\ scannedSSIDCount = 0
    /\ selectedSSIDIndex = 0
    /\ passwordCharIndex = 0
    /\ wifiPasswordInput = <<>>
    /\ bedTargetIP = DefaultBedIP
    /\ pillowTargetIP = DefaultPillowIP
    /\ savedWifi = NoWifi
    /\ nvs = EmptyNvs
    /\ since = [k \in DOMAIN SinceCap |->
                  IF k \in {"centerTouchStartTime", "lastButtonChange"} THEN 0
                  ELSE Min(SETUP_DELAY_MS, SinceCap[k])]
    /\ remote = [z \in Zones |-> [sd \in Sides |->
                  IF z = "bed" THEN [RemoteInit EXCEPT !.tempF = f] ELSE RemoteInit]]
    /\ sinceEdit = [z \in EditKeys |-> EditCap]
    /\ armed = NoneArmed
    /\ recentToggle = {}
    /\ heldPress = NoPress
    /\ op = [NoOp EXCEPT !.kind = "setup",
                         !.res = [z \in Zones |->
                           [ok |-> TRUE, tempF |-> IF z = "bed" THEN f ELSE RemoteInit.tempF,
                            isOn |-> TRUE, reply |-> "ok"]]]

InitRoundTrip == Synced(MaxRoundTripInputs, RoundTripTemps)

\* One user at the dial and a reachable remote that changes only when
\* written to: edit, debounced push, poll.
NextRoundTrip ==
  \/ ClientIdle
  \/ EncoderIdle
  \/ \E e \in EncoderInputs : HandleEncoderInput(e[1], e[2])
  \/ TouchIdle
  \/ FlushPending("ok")
  \/ FlushSkip
  \/ PeriodicSync("ok", "ok")
  \/ SyncSkip
  \/ Delay(TickMs)

SpecRoundTrip == InitRoundTrip /\ [][NextRoundTrip]_vars

\* The control surface alone, with the device connected and nobody at the
\* front panel.
InitApi == Boot(MaxApiInputs)

NextApi ==
  \/ \E pr \in BootPrefs : Setup(TRUE, pr[1], pr[2], "ok", "ok")
  \/ ClientIdle
  \/ \E v \in ApiBodies : HandleAPISetTemperature(v)
  \/ \E v \in ApiBodies : \E o \in NetOutcomes : HandleAPISetBedTemperature(v, o)
  \/ \E v \in ApiBodies : \E o \in NetOutcomes : HandleAPISetPillowTemperature(v, o)
  \/ HandleAPIBadRequest
  \/ \E z \in Zones : \E ip \in ApiAddresses : HandleAPISetTargetIP(z, ip)
  \/ EncoderIdle
  \/ TouchIdle
  \/ FlushSkip
  \/ PeriodicSync("ok", "ok")
  \/ SyncSkip
  \/ Delay(TickMs)

SpecApi == InitApi /\ [][NextApi]_vars

\* The controller with a reachable remote that changes only when written
\* to, and a loop() that keeps running: the specification of convergence.
NextConverge ==
  \/ \E pr \in BootPrefs : Setup(TRUE, pr[1], pr[2], "ok", "ok")
  \/ ClientIdle
  \/ \E v \in ApiValues : HandleAPISetTemperature(v)
  \/ \E v \in ApiValues : HandleAPISetBedTemperature(v, "ok")
  \/ \E v \in ApiValues : HandleAPISetPillowTemperature(v, "ok")
  \/ EncoderIdle
  \/ \E e \in EncoderInputs : HandleEncoderInput(e[1], e[2])
  \/ \E e \in EncoderInputs : \E n \in ScanResults : HandleEncoderInSettings(e[1], e[2], n)
  \/ TouchIdle
  \/ \E pt \in TouchPoints : TouchPressed(pt[1], pt[2])
  \/ \E dimmed \in BOOLEAN : TouchReleased("ok", dimmed)
  \/ FlushPending("ok")
  \/ FlushSkip
  \/ PeriodicSync("ok", "ok")
  \/ SyncSkip
  \/ Delay(TickMs)

SpecConverge == Init /\ [][NextConverge]_vars /\ WF_vars(NextConverge)

\* ================================================================ properties
\* Requests of the last step addressed to zone z.
RequestsTo(o, z) == {i \in DOMAIN o.reqs : o.reqs[i].zone = z}

\* |a - b| <= 0.1 degree Celsius, in units of 1/18 degree.
WithinNoise(a, b) == 10 * Abs(a - b) <= Scale

RECURSIVE Pow2(_)
Pow2(k) == IF k = 0 THEN 1 ELSE 2 * Pow2(k - 1)

\* C1: both zone setpoints are always within [TEMP_MIN, TEMP_MAX], after
\* dial and touch edits, control-surface writes, the startup sync, polls
\* and pushes.
C1_SetpointsInRange == \A z \in Zones : Setpoint(z) >= TEMP_MIN /\ Setpoint(z) <= TEMP_MAX

\* C2: a poll that starts less than SYNC_COOLDOWN_AFTER_CHANGE_MS after a
\* user write to a zone (dial, arc, reset or control surface) leaves that
\* zone's setpoint unchanged.
C2_NoPollChangeInCooldown ==
  op.kind = "poll" =>
    \A z \in Zones :
      op.before.sinceEdit[z] < SYNC_COOLDOWN_AFTER_CHANGE_MS => Setpoint(z) = op.before.setpoint[z]

\* C3: while connected, at the push phase of a tick a zone receives exactly
\* one remote temperature write if it has on-device edits not yet pushed
\* and the last edit is at least FREESLEEP_DEBOUNCE_MS old, and no write
\* otherwise.
C3_OneWritePerBurst ==
  [][(pc = "push" /\ wifiConnected) =>
       \A z \in Zones :
         Cardinality(RequestsTo(op', z)) =
           IF z \in armed.dial /\ sinceEdit["dial"] >= FREESLEEP_DEBOUNCE_MS THEN 1 ELSE 0]_vars

\* C4: every remote write of a debounced push is addressed to a zone whose
\* edit armed the push and carries that zone's setpoint.
C4_FlushAddressesArmingZone ==
  [][(pc = "push" /\ op'.kind = "flush") =>
       \A i \in DOMAIN op'.reqs :
         /\ op'.reqs[i].zone \in armed.dial
         /\ op'.reqs[i].tempF = PushTempF(Setpoint(op'.reqs[i].zone))]_vars

\* C5: right after a step that wrote a setpoint through an adjustment path
\* the push is pending and the last-edit time is the time of the write.
C5_WriteArmsPush ==
  op.writes # {} => pendingFreeSleepUpdate /\ since.lastSetpointChangeTime = 0

\* C6: the poll interval is min(2000 * 2^consecutiveFailures, 60000), so it
\* starts at 2000 and stays within [2000, 60000]; a poll cycle in which
\* every fetch failed doubles it up to the cap and counts one more failure.
C6_IntervalLaw ==
  /\ currentSyncInterval =
       Min(FREESLEEP_SYNC_INTERVAL_MS * Pow2(consecutiveFailures), MAX_SYNC_INTERVAL_MS)
  /\ currentSyncInterval >= FREESLEEP_SYNC_INTERVAL_MS
  /\ currentSyncInterval <= MAX_SYNC_INTERVAL_MS

C6_FailedCycleDoubles ==
  (pc = "sync" /\ op'.kind = "poll" /\ \A z \in Zones : ~op'.res[z].ok) =>
    /\ currentSyncInterval' = Min(2 * currentSyncInterval, MAX_SYNC_INTERVAL_MS)
    /\ consecutiveFailures' = consecutiveFailures + 1

C6_Backoff == []C6_IntervalLaw /\ [][C6_FailedCycleDoubles]_vars

\* C6 happens: the interval has reached the cap after MaxBackoffFailures
\* failed cycles in a row.
C6_Witness ==
  /\ op.kind = "poll"
  /\ consecutiveFailures = MaxBackoffFailures
  /\ op.before.interval = MAX_SYNC_INTERVAL_MS
  /\ currentSyncInterval = MAX_SYNC_INTERVAL_MS

\* C7: after a poll cycle in which at least one fetch succeeded the interval
\* is 2000 and the failure count is 0, whatever they were before.
C7_SuccessResets ==
  (op.kind = "poll" /\ \E z \in Zones : op.res[z].ok) =>
    currentSyncInterval = FREESLEEP_SYNC_INTERVAL_MS /\ consecutiveFailures = 0

\* C7 happens: a cycle with one successful fetch, after failed cycles that
\* had driven the interval to the cap.
C7_Witness ==
  /\ op.kind = "poll"
  /\ \E z \in Zones : op.res[z].ok
  /\ \E z \in Zones : ~op.res[z].ok
  /\ op.before.failures = MaxBackoffFailures
  /\ op.before.interval = MAX_SYNC_INTERVAL_MS
  /\ currentSyncInterval = FREESLEEP_SYNC_INTERVAL_MS
  /\ consecutiveFailures = 0

\* C8: after a poll, a zone whose fetch succeeded, whose last edit is more
\* than SYNC_COOLDOWN_AFTER_CHANGE_MS old and whose setpoint differed from
\* the remote value by more than 0.1 degree holds the remote value; a zone
\* whose fetch failed, or succeeded within 0.1 degree, is unchanged.
C8_PollMerge ==
  op.kind = "poll" =>
    \A z \in Zones :
      LET r == op.res[z]
          local == op.before.setpoint[z]
          remoteC == fahrenheitToCelsius(r.tempF)
      IN  /\ (r.ok /\ op.before.sinceEdit[z] > SYNC_COOLDOWN_AFTER_CHANGE_MS
                /\ ~WithinNoise(local, remoteC)) => Setpoint(z) = remoteC
          /\ ((r.ok /\ WithinNoise(local, remoteC)) \/ ~r.ok) => Setpoint(z) = local

\* C9: after a poll, every zone whose fetch succeeded has the remote isOn
\* value as its power state, whatever the cooldown and however recently the
\* user toggled power.
C9_PowerFollowsRemote ==
  op.kind = "poll" => \A z \in Zones : op.res[z].ok => PowerOn(z) = op.res[z].isOn

\* C9 happens: the user toggled a zone's power in this loop iteration, the
\* remote did not take the toggle, and the poll put the remote value back.
C9_Witness ==
  /\ op.kind = "poll"
  /\ \E z \in recentToggle :
       /\ op.res[z].ok
       /\ op.before.power[z] # op.res[z].isOn
       /\ PowerOn(z) = op.res[z].isOn

\* Whether a setpoint t agrees within 0.1 degree Celsius with a remote
\* temperature of f degrees Fahrenheit, tabulated over the setpoints and
\* the remote temperatures that occur.
Agrees ==
  [t \in TEMP_MIN..fahrenheitToCelsius(PUSH_MAX_F), f \in PUSH_MIN_F..PUSH_MAX_F |->
     WithinNoise(t, fahrenheitToCelsius(f))]

\* Every zone's setpoint is within 0.1 degree Celsius of the temperature
\* the remote holds for it.
Converged == \A z \in Zones : Agrees[Setpoint(z), remote[z][Side].tempF]

\* C10: with a reachable remote that changes only by pushes and a settings
\* menu that ends up closed, once the edits have stopped every zone's
\* setpoint is eventually within 0.1 degree of its remote value, for good.
C10_Converges == (<>[](~inSettingsMenu)) => <>[]Converged

\* C10 happens: edits were made, a push changed the remote, and a poll
\* after the last edit left both zones agreeing with it.
C10_Witness ==
  /\ op.kind = "poll"
  /\ inputs = 0
  /\ ~inSettingsMenu
  /\ \E z \in Zones : remote[z][Side].tempF # RemoteInit.tempF
  /\ Converged

\* Requests of step record o that write a temperature.
TemperatureWrites(o) == {i \in DOMAIN o.reqs : o.reqs[i].field = "targetTemperatureF"}

\* C11: a debounced push is attempted only for on-device edits made since
\* the previous one and leaves the pending flag cleared whether or not its
\* write succeeded, so a failed write is not retried; the pending flag is
\* set only while such an edit waits.
C11_PendingOnlyAfterEdit == pendingFreeSleepUpdate => armed.dial # {}

C11_FlushClearsPending ==
  (pc = "push" /\ op'.kind = "flush") =>
    /\ armed.dial # {}
    /\ ~pendingFreeSleepUpdate'
    /\ Cardinality(TemperatureWrites(op')) <= 1

C11_NoRetry == []C11_PendingOnlyAfterEdit /\ [][C11_FlushClearsPending]_vars

\* C11 happens: the write of a debounced push timed out and the push is no
\* longer pending.
C11_Witness ==
  /\ op.kind = "flush"
  /\ Len(op.reqs) = 1
  /\ ~op.reqs[1].ok
  /\ ~pendingFreeSleepUpdate
  /\ armed.dial = {}

\* C12: a poll starts only in the sync phase of a tick, after the push
\* phase, and only when no debounced push is pending; a debounced push runs
\* only in the push phase and is complete when the sync phase begins.
C12_PollAfterPush ==
  /\ (op'.kind = "poll" /\ op' # op) =>
       pc = "sync" /\ pc' = "delay" /\ ~pendingFreeSleepUpdate /\ armed.dial = {}
  /\ (op'.kind = "flush" /\ op' # op) => pc = "push" /\ pc' = "sync"

C12_PollPushNeverOverlap == [][C12_PollAfterPush]_vars

\* C12 happens: a poll ran in the tick in which the push of an edit made
\* FREESLEEP_DEBOUNCE_MS earlier was flushed.
C12_Witness ==
  /\ op.kind = "poll"
  /\ sinceEdit["dial"] = FREESLEEP_DEBOUNCE_MS
  /\ armed.dial = {}
  /\ ~pendingFreeSleepUpdate

\* ------------------------------------------------------------ front panel
\* The rotary handlers, by the name their steps leave in op.kind, and the
\* accumulator each one owns.
RotaryKinds == {"encoder", "settings", "ipEditor", "scanner", "password"}

Accumulator(k) ==
  CASE k = "encoder" -> encoderAccumulator
    [] k = "settings" -> settingsAccumulator
    [] k = "ipEditor" -> ipEditorAccumulator
    [] k = "scanner" -> scannerAccumulator
    [] k = "password" -> passwordAccumulator

\* C13: conservation of rotary movement. In every step, each handler's
\* accumulator plus the raw counts delivered to that handler equals DETENT
\* times the detents it emitted plus the accumulator afterwards, and a
\* remainder left after an emission is less than a detent and has the sign
\* of the accumulated movement; no other step touches an accumulator. All
\* accumulators start at 0, so over any sequence of calls the sum of the
\* deltas is DETENT times the sum of the emitted steps plus the final
\* accumulator.
C13_StepConserves ==
  \A k \in RotaryKinds :
    LET called == pc = "encoder" /\ op'.kind = k
        moved == IF called THEN op'.diff ELSE 0
        emitted == IF called THEN op'.steps ELSE 0
        total == Accumulator(k) + moved
    IN  /\ total = DETENT * emitted + Accumulator(k)'
        /\ emitted # 0 => /\ Abs(Accumulator(k)') < DETENT
                          /\ Accumulator(k)' = 0 \/ (Accumulator(k)' < 0) = (total < 0)

C13_Conservation ==
  (\A k \in RotaryKinds : Accumulator(k) = 0) /\ [][C13_StepConserves]_vars

\* C13 happens: a handler was turned back by two detents or more and part of
\* another, emitted the whole detents and kept a
\* negative remainder.
C13_Witness ==
  /\ op.kind \in RotaryKinds
  /\ op.steps < -1
  /\ op.diff # DETENT * op.steps
  /\ Accumulator(op.kind) < 0

\* A step that releases the centre gesture, and one that starts it.
GestureReleased == pc = "touch" /\ centerTouchActive /\ ~centerTouchActive'

GestureStarted == pc = "touch" /\ ~centerTouchActive /\ centerTouchActive'

\* The release is not within the debounce time of the last accepted one.
ReleaseAccepted == since.lastCenterTapTime >= TAP_DEBOUNCE_MS

\* What a touch step did, seen from outside: the four events of a centre
\* release.
DimToggled == op'.activity \in {"now", "zero"}

PowerToggled(z) == PowerOn(z)' # PowerOn(z)

NightToggled == nightModeOverride' # nightModeOverride

SettingsOpened ==
  inSettingsMenu' /\ currentSubMenu' = "SUBMENU_NONE" /\ currentMenuItem' = MENU_WIFI_SETTINGS

MenuKept == menu' = menu

\* C14: an accepted release of a centre gesture of duration d does exactly
\* one thing: it toggles the dim for d < 200 ms, the power of the active
\* zone (and of no other) for 200 <= d < 1000, the night override for
\* 1000 <= d < 3000, and opens the settings menu for d >= 3000; it never
\* writes a setpoint. The centre press that starts the gesture does none
\* of these and sends nothing.
C14_ReleaseStep ==
  LET d == since.centerTouchStartTime
      dim == d < TAP_MIN_MS
      pwr == TAP_MIN_MS <= d /\ d < POWER_MAX_MS
      night == POWER_MAX_MS <= d /\ d < NIGHT_MODE_MAX_MS
      open == d >= NIGHT_MODE_MAX_MS
  IN  /\ (GestureReleased /\ ReleaseAccepted) =>
           /\ DimToggled = dim
           /\ PowerToggled(ActiveZone) = pwr
           /\ \A z \in Zones \ {ActiveZone} : ~PowerToggled(z)
           /\ \A i \in DOMAIN op'.reqs : op'.reqs[i].zone = ActiveZone /\ op'.reqs[i].field = "isOn"
           /\ (op'.reqs # <<>>) => pwr
           /\ NightToggled = night
           /\ IF open THEN SettingsOpened ELSE MenuKept
           /\ setpoints' = setpoints
      /\ GestureStarted =>
           /\ ~DimToggled
           /\ \A z \in Zones : ~PowerToggled(z)
           /\ ~NightToggled
           /\ MenuKept
           /\ setpoints' = setpoints
           /\ op'.reqs = <<>>

C14_OneEventPerRelease == [][C14_ReleaseStep]_vars

\* C14 happens: a tap of less than 200 ms was accepted and dimmed the
\* display.
C14_Witness ==
  /\ op.kind = "dim"
  /\ op.activity = "zero"
  /\ ~centerTouchActive
  /\ since.lastCenterTapTime = 0

\* A touch release seen by handleTouchInput() while a centre gesture is
\* active, by what the step leaves in op.kind.
ReleaseKinds == {"ignored", "dim", "power", "night", "settings"}

ReleaseSeen == pc = "touch" /\ op'.kind \in ReleaseKinds

\* The release emitted one of the four events.
EventEmitted ==
  DimToggled \/ (\E z \in Zones : PowerToggled(z)) \/ NightToggled \/ SettingsOpened

\* C15: the debounce of centre releases. A release less than 500 ms after
\* the last accepted release does nothing but end the gesture: no dim,
\* power or night toggle, no menu change, no request, and the debounce
\* reference time stays where it was. A release 500 ms or more after the
\* last accepted one is accepted: it emits its event and becomes the
\* reference. Either way the gesture is over.
C15_ReleaseStep ==
  ReleaseSeen =>
    /\ centerTouchActive
    /\ ~centerTouchActive'
    /\ IF since.lastCenterTapTime < TAP_DEBOUNCE_MS
       THEN /\ ~DimToggled
            /\ \A z \in Zones : ~PowerToggled(z)
            /\ ~NightToggled
            /\ MenuKept
            /\ op'.reqs = <<>>
            /\ since'.lastCenterTapTime = since.lastCenterTapTime
       ELSE /\ EventEmitted
            /\ since'.lastCenterTapTime = 0

C15_Debounce == [][C15_ReleaseStep]_vars

\* C15 happens: a second tap was released within 500 ms of an accepted one
\* and was dropped; the reference time is still that of the first.
C15_Witness ==
  /\ op.kind = "ignored"
  /\ ~centerTouchActive
  /\ since.lastCenterTapTime > 0
  /\ since.lastCenterTapTime < TAP_DEBOUNCE_MS

\* A rotary handler saw a movement or a button press.
DialUsed == pc = "encoder" /\ op'.kind \in RotaryKinds

\* A touch press outside the centre region of the main screen.
PressedOutsideCenter ==
  /\ pc = "touch"
  /\ op'.kind = "press"
  /\ ~(centerTouchActive' /\ since'.centerTouchStartTime = 0)

\* C16: every accepted input event, that is a rotary movement, a button
\* press, a touch press outside the centre region and an accepted centre
\* release in any of the four bands, sets the last-activity timestamp to the
\* current time.
C16_Step ==
  (DialUsed \/ PressedOutsideCenter \/ (GestureReleased /\ ReleaseAccepted)) =>
    op'.activity = "now"

C16_InputRecordsActivity == [][C16_Step]_vars

\* C17: whenever the settings menu is opened from the main screen, by a
\* centre hold of 3000 ms or more or by a press in the bottom strip, no
\* submenu is active and the current item is the first one (WiFi Settings),
\* whatever item was current when the menu was last left.
C17_Step ==
  (pc = "touch" /\ ~inSettingsMenu /\ inSettingsMenu') =>
    /\ currentSubMenu' = "SUBMENU_NONE"
    /\ currentMenuItem' = MENU_WIFI_SETTINGS

C17_OpensAtFirstItem == [][C17_Step]_vars

\* C18: in the settings menu with no submenu active, a call that emits n
\* detents, for any n of either sign and any size, sets the current item to
\* (item + n) mod 7 taken into 0..6, so the current item is always one of
\* the seven settings entries.
C18_Step ==
  (pc = "encoder" /\ op'.kind = "settings") =>
    currentMenuItem' = (currentMenuItem + op'.steps) % MENU_COUNT

C18_ItemDefined == currentMenuItem \in 0..(MENU_COUNT - 1)

C18_MenuWraps == []C18_ItemDefined /\ [][C18_Step]_vars

\* C19: a touch press while a submenu is active leaves the settings menu
\* open with no submenu active, and never goes to the main screen in one
\* step; a touch press in the settings menu with no submenu active goes to
\* the main screen.
C19_Step ==
  (pc = "touch" /\ op'.kind = "press" /\ inSettingsMenu) =>
    /\ currentSubMenu' = "SUBMENU_NONE"
    /\ inSettingsMenu' = (currentSubMenu # "SUBMENU_NONE")

C19_TouchPopsOneLevel == [][C19_Step]_vars

\* C19 happens: the menu was opened, the WiFi scan entered and found two
\* networks, and the third input, a touch, left the scan for the menu.
C19_Witness ==
  /\ op.kind = "press"
  /\ inputs = MaxPanelInputs - 3
  /\ scannedSSIDCount = 2
  /\ inSettingsMenu
  /\ currentSubMenu = "SUBMENU_NONE"

\* A button press seen by the rotary handler `k`.
ButtonIn(k) == pc = "encoder" /\ op'.kind = k /\ op'.button

\* C20: the navigation nesting. A submenu is active only while the settings
\* menu is open. The IP editor is entered only by a button press in the
\* settings menu on one of the two address items, the WiFi scan only by a
\* button press in the settings menu on the WiFi item, the password entry
\* only by a button press in the WiFi scan, and the main screen is reached
\* only from the settings menu with no submenu active.
C20_Nested == (currentSubMenu # "SUBMENU_NONE") => inSettingsMenu

C20_Step ==
  /\ (currentSubMenu' = "SUBMENU_IP_EDITOR" /\ currentSubMenu # "SUBMENU_IP_EDITOR") =>
       /\ ButtonIn("settings")
       /\ inSettingsMenu /\ inSettingsMenu'
       /\ currentSubMenu = "SUBMENU_NONE"
       /\ currentMenuItem' \in {MENU_BED_IP, MENU_PILLOW_IP}
       /\ editingBedIP' = (currentMenuItem' = MENU_BED_IP)
  /\ (currentSubMenu' = "SUBMENU_WIFI_SCAN" /\ currentSubMenu # "SUBMENU_WIFI_SCAN") =>
       /\ ButtonIn("settings")
       /\ inSettingsMenu /\ inSettingsMenu'
       /\ currentSubMenu = "SUBMENU_NONE"
       /\ currentMenuItem' = MENU_WIFI_SETTINGS
  /\ (currentSubMenu' = "SUBMENU_WIFI_PASSWORD" /\ currentSubMenu # "SUBMENU_WIFI_PASSWORD") =>
       /\ ButtonIn("scanner")
       /\ inSettingsMenu /\ inSettingsMenu'
       /\ currentSubMenu = "SUBMENU_WIFI_SCAN"
  /\ (inSettingsMenu /\ ~inSettingsMenu') =>
       /\ currentSubMenu = "SUBMENU_NONE"
       /\ currentSubMenu' = "SUBMENU_NONE"

C20_LegalNesting == []C20_Nested /\ [][C20_Step]_vars

\* C20 happens: the two-level chain, the password entry entered from the
\* WiFi scan by the button.
C20_Witness ==
  /\ currentSubMenu = "SUBMENU_WIFI_PASSWORD"
  /\ inSettingsMenu
  /\ op.kind = "scanner"
  /\ op.button

\* C21: a call of the address editor that emits n detents replaces the
\* octet being edited, v, by (v + n) mod 256, a value in 0..255, and leaves
\* the other three octets as they were.
C21_Step ==
  (op'.kind = "ipEditor") =>
    /\ tempIPOctets'[ipEditorOctet + 1] = (tempIPOctets[ipEditorOctet + 1] + op'.steps) % 256
    /\ tempIPOctets'[ipEditorOctet + 1] \in 0..255
    /\ \A i \in 1..4 : i # ipEditorOctet + 1 => tempIPOctets'[i] = tempIPOctets[i]

C21_OctetWraps == [][C21_Step]_vars

\* The first octet turned 75 detents, from 1 to 76.
C21_Witness ==
  op.kind = "ipEditor" /\ op.steps = 75 /\ ipEditorOctet = 0 /\ tempIPOctets[1] = 76

\* C22: every button press in the address editor moves to the next octet;
\* the press that reaches the fourth writes the four octets shown to the
\* endpoint and the persisted address of the zone whose item is selected,
\* leaves the other zone alone and returns to the settings menu; an earlier
\* press, or a call without a press, stores nothing and stays in the editor.
C22_Step ==
  (op'.kind = "ipEditor") =>
    LET forBed == currentMenuItem = MENU_BED_IP
        last == op'.button /\ ipEditorOctet = 3
    IN  /\ ipEditorOctet' = IF op'.button THEN ipEditorOctet + 1 ELSE ipEditorOctet
        /\ last =>
              /\ currentSubMenu' = "SUBMENU_NONE" /\ inSettingsMenu'
              /\ IF forBed
                 THEN /\ bedTargetIP' = tempIPOctets' /\ nvs'.bedIP = tempIPOctets'
                      /\ pillowTargetIP' = pillowTargetIP /\ nvs'.pillowIP = nvs.pillowIP
                 ELSE /\ pillowTargetIP' = tempIPOctets' /\ nvs'.pillowIP = tempIPOctets'
                      /\ bedTargetIP' = bedTargetIP /\ nvs'.bedIP = nvs.bedIP
        /\ ~last => /\ UNCHANGED <<bedTargetIP, pillowTargetIP, nvs, heldPress>>
                    /\ currentSubMenu' = "SUBMENU_IP_EDITOR"

C22_FourthPressCommits == [][C22_Step]_vars

\* The fourth press has stored an edited bed address.
C22_Witness ==
  /\ op.kind = "ipEditor" /\ op.button /\ ipEditorOctet = 4
  /\ currentSubMenu = "SUBMENU_NONE"
  /\ bedTargetIP # StaticBedIP /\ nvs.bedIP = bedTargetIP /\ bedTargetIP = tempIPOctets
  /\ pillowTargetIP = DefaultPillowIP

\* The addresses and the persisted addresses the editor was opened on.
EditorEntry ==
  IF editingBedIP
  THEN [bed |-> StaticBedIP, pillow |-> DefaultPillowIP,
        nvs |-> [EmptyNvs EXCEPT !.bedIP = StaticBedIP]]
  ELSE [bed |-> DefaultBedIP, pillow |-> StaticBedIP,
        nvs |-> [EmptyNvs EXCEPT !.pillowIP = StaticBedIP]]

EditorStored == [bed |-> bedTargetIP, pillow |-> pillowTargetIP, nvs |-> nvs]

\* C23: with fewer than four presses made, whatever was turned, both
\* zones' addresses and persisted addresses are those the editor was
\* opened on; a tap in the editor returns to the settings menu and changes
\* none of them.
C23_NothingStored == (ipEditorOctet < 4) => EditorStored = EditorEntry

C23_Step ==
  (op'.kind = "press" /\ currentSubMenu = "SUBMENU_IP_EDITOR") =>
    /\ currentSubMenu' = "SUBMENU_NONE" /\ inSettingsMenu'
    /\ EditorStored' = EditorStored

C24_InRange ==
  (currentSubMenu = "SUBMENU_WIFI_SCAN") =>
    /\ scannedSSIDCount <= MAX_SSIDS
    /\ scannedSSIDCount > 0 => selectedSSIDIndex \in 0..(scannedSSIDCount - 1)

C24_Step ==
  (op'.kind = "scanner" /\ ~op'.button) =>
    IF scannedSSIDCount > 0
    THEN LET moved == selectedSSIDIndex + op'.steps
         IN  selectedSSIDIndex' =
               IF moved < 0 THEN 0
               ELSE IF moved > scannedSSIDCount - 1 THEN scannedSSIDCount - 1 ELSE moved
    ELSE selectedSSIDIndex' = selectedSSIDIndex /\ menu' = menu

C24_SelectionSaturates == []C24_InRange /\ [][C24_Step]_vars

\* Seven detents forward in a list of two: the selection stops at the last.
C24_Witness ==
  /\ op.kind = "scanner" /\ op.steps = 7
  /\ scannedSSIDCount = 2 /\ selectedSSIDIndex = 1
  /\ currentSubMenu = "SUBMENU_WIFI_SCAN"

\* What the program holds apart from the clock: every variable but the
\* position in loop(), the input budget and the observers.
ProgramState ==
  <<wifiConnected, setpoints, power, pillowModeActive, prefs, menu, accs, pendingFreeSleepUpdate,
    backoff, centerTouchActive, submenus>>

\* A button press alone in the network list.
ListPress == op'.kind = "scanner" /\ op'.button /\ op'.diff = 0

\* A press with networks found opens the password screen for the selected
\* network, with an empty buffer and the first character under the cursor.
C25_Enters ==
  (ListPress /\ scannedSSIDCount > 0) =>
    /\ currentSubMenu' = "SUBMENU_WIFI_PASSWORD" /\ inSettingsMenu'
    /\ selectedSSIDIndex' = selectedSSIDIndex /\ scannedSSIDCount' = scannedSSIDCount
    /\ wifiPasswordInput' = <<>> /\ passwordCharIndex' = 0

\* C25 as stated: a press with networks found opens the password screen,
\* and a press with none found changes no state at all, the activity time
\* included.
C25_EmptyPressChangesNothing ==
  [][/\ C25_Enters
     /\ (ListPress /\ scannedSSIDCount <= 0) =>
          (ProgramState' = ProgramState /\ op'.activity = "none")]_vars

\* C25, amended: a press with networks found opens the password screen,
\* and a press with none found changes nothing but the activity time, which
\* it sets to now (recordActivity()).
C25_EmptyPressOnlyWakes ==
  [][/\ C25_Enters
     /\ (ListPress /\ scannedSSIDCount <= 0) =>
          (ProgramState' = ProgramState /\ op'.activity = "now")]_vars

\* The button pressed on a list with no network.
C25_Witness ==
  /\ op.kind = "scanner" /\ op.button /\ op.diff = 0
  /\ scannedSSIDCount <= 0 /\ currentSubMenu = "SUBMENU_WIFI_SCAN"

\* C26: a call of the password handler that sees the held press makes one
\* association attempt with the selected network and the buffer, waits at
\* most CONNECT_ATTEMPTS times for it, and ends on the settings menu with no
\* submenu whether it joined or not; the credentials are stored, and
\* persisted, only when it joined. A call without the held press attempts
\* and stores nothing.
C26_Step ==
  (op'.kind = "password") =>
    LET attempt == op'.attempt
        found == [ssid |-> selectedSSIDIndex, pass |-> wifiPasswordInput']
    IN  IF attempt.tried
        THEN /\ attempt.waits \in 0..CONNECT_ATTEMPTS
             /\ currentSubMenu' = "SUBMENU_NONE" /\ inSettingsMenu'
             /\ IF attempt.joined
                THEN nvs'.wifi = found /\ savedWifi' = found /\ wifiConnected'
                ELSE nvs' = nvs /\ savedWifi' = savedWifi /\ wifiConnected' = wifiConnected
        ELSE /\ nvs' = nvs /\ savedWifi' = savedWifi /\ wifiConnected' = wifiConnected
             /\ currentSubMenu' = "SUBMENU_WIFI_PASSWORD"

C26_AttemptEnds == [][C26_Step]_vars

\* The second network of the list joined at the last wait, the handler
\* back on the settings menu.
C26_Witness ==
  /\ op.kind = "password" /\ op.attempt.tried
  /\ currentSubMenu = "SUBMENU_NONE" /\ inSettingsMenu
  /\ op.attempt.waits = CONNECT_ATTEMPTS
  /\ op.attempt.joined /\ nvs.wifi = [ssid |-> 1, pass |-> <<>>]

\* C27: every request a step sent carries the side key of the bed-side
\* flag, whichever zone it went to.
C27_RequestsUseBedSide == \A i \in DOMAIN op.reqs : op.reqs[i].side = Side

\* C28: with the Fahrenheit unit enabled, every setpoint a step wrote is a
\* whole number of degrees Fahrenheit.
C28_WritesWholeFahrenheit ==
  useFahrenheit => \A z \in op.writes : celsiusToFahrenheit10(Setpoint(z)) % 10 = 0

\* C29: a control-surface request that carries a numeric setpoint, in
\* range or not, is answered with success and writes one zone, which then
\* holds the value brought into TEMP_MIN..TEMP_MAX.
C29_Step ==
  (op'.kind = "api" /\ op'.api.numeric) =>
    LET v == op'.api.value
        clamped == IF v < TEMP_MIN THEN TEMP_MIN ELSE IF v > TEMP_MAX THEN TEMP_MAX ELSE v
    IN  /\ op'.api.status = 200
        /\ Cardinality(op'.writes) = 1
        /\ \A z \in op'.writes : Setpoint(z)' = clamped

C29_OutOfRangeClamped == [][C29_Step]_vars

\* 5 C was sent to the pillow endpoint: accepted, and stored as TEMP_MIN.
C29_Witness ==
  /\ op.kind = "api" /\ op.api.status = 200 /\ op.api.value = 5 * Scale
  /\ op.writes = {"pillow"} /\ pillowSetpoint = TEMP_MIN

\* An answer that does not parse, or has no temperature for the side.
Malformed(r) == r.reply \in {"garbled", "nofield"}

\* C30: in a poll cycle a zone whose answer is malformed is treated as one
\* that did not answer: the fetch fails and the zone's setpoint and power
\* stay as they were; when neither zone gives a usable answer and at least
\* one answer is malformed, the interval doubles (up to the cap) and the
\* failure count goes up by one.
C30_Step ==
  (op'.kind = "poll") =>
    /\ \A z \in Zones :
          Malformed(op'.res[z]) =>
            /\ ~op'.res[z].ok
            /\ Setpoint(z)' = Setpoint(z)
            /\ PowerOn(z)' = PowerOn(z)
    /\ ((\A z \in Zones : op'.res[z].reply # "ok") /\ (\E z \in Zones : Malformed(op'.res[z]))) =>
          /\ currentSyncInterval' = Min(2 * currentSyncInterval, MAX_SYNC_INTERVAL_MS)
          /\ consecutiveFailures' = consecutiveFailures + 1

C30_MalformedIsFailure == [][C30_Step]_vars

\* A cycle in which the bed answered with no temperature and the pillow
\* with a body that does not parse: the second failed cycle in a row.
C30_Witness ==
  /\ op.kind = "poll"
  /\ op.res["bed"].reply = "nofield" /\ op.res["pillow"].reply = "garbled"
  /\ op.before.failures = 1 /\ consecutiveFailures = 2
  /\ currentSyncInterval = 2 * op.before.interval
  /\ \A z \in Zones : Setpoint(z) = op.before.setpoint[z] /\ PowerOn(z) = op.before.power[z]

\* C31: every temperature request a step sent carries a whole number of
\* degrees Fahrenheit from PUSH_MIN_F to PUSH_MAX_F.
C31_PushedInRange ==
  \A i \in DOMAIN op.reqs :
    op.reqs[i].field = "targetTemperatureF" => op.reqs[i].tempF \in PUSH_MIN_F..PUSH_MAX_F

\* A zone set to TEMP_MIN (50 F) by the control surface was pushed as
\* PUSH_MIN_F.
C31_Witness ==
  /\ op.kind = "api" /\ op.writes = {"bed"} /\ bedSetpoint = TEMP_MIN
  /\ Len(op.reqs) = 1 /\ op.reqs[1].field = "targetTemperatureF"
  /\ op.reqs[1].tempF = PUSH_MIN_F

\* C32: the cooldown is per zone: after a poll, a zone that was not edited
\* within SYNC_COOLDOWN_AFTER_CHANGE_MS, while the other zone was, and whose
\* fetch succeeded with a value more than 0.1 degree from its setpoint,
\* holds the remote value.
C32_CooldownPerZone ==
  op.kind = "poll" =>
    \A b \in Zones : \A a \in Zones \ {b} :
      LET r == op.res[b]
          remoteC == fahrenheitToCelsius(r.tempF)
      IN  (/\ op.before.sinceEdit[a] <= SYNC_COOLDOWN_AFTER_CHANGE_MS
           /\ op.before.sinceEdit[b] > SYNC_COOLDOWN_AFTER_CHANGE_MS
           /\ r.ok /\ ~WithinNoise(op.before.setpoint[b], remoteC)) => Setpoint(b) = remoteC

\* C33: after every step the accumulator of each rotary handler holds less
\* than a detent.
C33_NoBacklog == \A k \in RotaryKinds : Abs(Accumulator(k)) < DETENT

\* C34: the password an association attempt is made with is the buffer as
\* it stood before the press that was held began.
C34_Step == op'.attempt.tried => op'.attempt.pass = heldPress.buffer

C34_SubmitsBufferBeforePress == [][C34_Step]_vars

\* C35: while the settings menu is open, with or without a submenu, a call
\* of the rotary handler changes neither setpoint and arms no push; no
\* periodic poll runs; and a pending push that is due is still sent and
\* cleared.
C35_Step ==
  /\ (pc = "encoder" /\ inSettingsMenu) =>
       /\ setpoints' = setpoints
       /\ pendingFreeSleepUpdate' => pendingFreeSleepUpdate
  /\ (pc = "sync" /\ inSettingsMenu) => op'.kind # "poll"
  /\ (pc = "push" /\ inSettingsMenu /\ pendingFreeSleepUpdate
        /\ since.lastSetpointChangeTime >= FREESLEEP_DEBOUNCE_MS) =>
       /\ op'.kind = "flush"
       /\ ~pendingFreeSleepUpdate'
       /\ wifiConnected => Len(op'.reqs) = 1

C35_MenuSuspendsEditsAndPolls == [][C35_Step]_vars

\* C35 witness: the menu is open on a submenu reached with the dial, and
\* the push that was pending when the menu opened has just been sent.
C35_Witness ==
  /\ inSettingsMenu
  /\ currentSubMenu # "SUBMENU_NONE"
  /\ op.kind = "flush"
  /\ Len(op.reqs) = 1
  /\ bedSetpoint = TEMP_DEFAULT + Scale

\* C36: the active-zone selector changes only in a press of a zone button
\* on the main screen or a button press on the Temperature Mode item of the
\* settings menu; the debounced push and the periodic poll, with its
\* backoff update, leave it alone.
C36_Step ==
  /\ pillowModeActive' # pillowModeActive =>
       \/ /\ ~inSettingsMenu
          /\ \E pt \in MenuPoints :
               /\ TouchRegion(pt[1], pt[2]) \in {"pillowButton", "bedButton"}
               /\ TouchPressed(pt[1], pt[2])
       \/ /\ inSettingsMenu
          /\ currentSubMenu = "SUBMENU_NONE"
          /\ pc = "encoder"
          /\ op'.kind = "settings"
          /\ op'.button
          /\ currentMenuItem' = MENU_TEMPERATURE_MODE
  /\ pc \in {"push", "sync"} => pillowModeActive' = pillowModeActive

C36_SelectorIsTheUsers == [][C36_Step]_vars

\* C36 witness: the selector was switched to the pillow on the Temperature
\* Mode item, the menu was left, and a poll that failed and backed off has
\* run with the pillow still selected.
C36_Witness ==
  /\ pillowModeActive
  /\ ~inSettingsMenu
  /\ currentMenuItem = MENU_TEMPERATURE_MODE
  /\ op.kind = "poll"
  /\ consecutiveFailures > 0

\* C37: the push/poll round trip is stable: a poll after the cooldown that
\* returns, for a zone, exactly the value a push of that zone's setpoint
\* stores on the remote leaves the setpoint as it was.
C37_RoundTripStable ==
  op.kind = "poll" =>
    \A z \in Zones :
      LET s == op.before.setpoint[z]
      IN  (/\ s >= TEMP_MIN
           /\ s <= TEMP_MAX
           /\ op.before.sinceChange > SYNC_COOLDOWN_AFTER_CHANGE_MS
           /\ op.res[z].ok
           /\ op.res[z].tempF = PushTempF(s)) => Setpoint(z) = s

\* C38: while the address editor is open the octet index is in 0..3, so
\* tempIPOctets is read and written inside its four elements; and every
\* entry to the editor sets the index to 0.
C38_IndexInRange == currentSubMenu = "SUBMENU_IP_EDITOR" => ipEditorOctet \in 0..3

C38_Step ==
  (currentSubMenu # "SUBMENU_IP_EDITOR" /\ currentSubMenu' = "SUBMENU_IP_EDITOR") =>
    ipEditorOctet' = 0

C38_OctetIndexBounded == [](C38_IndexInRange) /\ [][C38_Step]_vars

\* C38 witness: an edited address was stored by the fourth press, which
\* left the index at 4, and the next press opened the editor again from the
\* settings menu: the index is 0.
C38_Witness ==
  /\ currentSubMenu = "SUBMENU_IP_EDITOR"
  /\ ipEditorOctet = 0
  /\ op.kind = "settings"
  /\ op.button
  /\ \/ nvs.bedIP \notin {<<>>, StaticBedIP}
     \/ nvs.pillowIP \notin {<<>>, StaticBedIP}

\* The address setup() would load for zone z from the preferences store.
Persisted(z) ==
  IF z = "bed" THEN (IF nvs.bedIP = <<>> THEN DefaultBedIP ELSE nvs.bedIP)
  ELSE (IF nvs.pillowIP = <<>> THEN DefaultPillowIP ELSE nvs.pillowIP)

\* C39: once setup() has loaded them, each zone's endpoint address in
\* memory equals its persisted value, or the load-time default when nothing
\* is persisted, whatever the editor and the control surface have done.
C39_AddressesPersisted ==
  pc # "setup" => (bedTargetIP = Persisted("bed") /\ pillowTargetIP = Persisted("pillow"))

====
